---- MODULE Spec2Model ----
(***************************************************************************)
(* RustyChunker: the per-page chunking pipeline                            *)
(*   preprocess -> segment -> merge -> overlap                             *)
(* and the BPE tokenizer it measures text with.                            *)
(*                                                                         *)
(* A text is a sequence of bytes, each written as a string.  Every         *)
(* character of the model's alphabet but one is a single byte of UTF-8;    *)
(* the exception is one two-byte character, the bytes Utf8Lead Utf8Cont.   *)
(* Offsets are byte offsets.  Token ranks are natural numbers.             *)
(***************************************************************************)
EXTENDS Naturals, Sequences, FiniteSets, TLC

(***************************************************************************)
(* Bounds of the model.                                                    *)
(***************************************************************************)
\* longest page text drawn over the whole alphabet
MaxLen == 4
\* longest page text drawn over the smaller alphabet LongChars
MaxLongLen == 5
\* largest target_tokens drawn as configuration
MaxTarget == 2
\* largest overlap_tokens drawn as configuration
MaxOverlap == 2
\* longest page text, in characters, drawn over the alphabet WideChars
MaxWideLen == 3
\* longest string drawn for a direct call of preprocess()
MaxPreLen == 5
MaxMarkupLen == 4
MaxPieceLen == 4
MaxBlocks == 3
MaxDecodeLen == 2
MaxWorkers == 3
MaxSimpleLen == 2
MaxChunkSize == 2
MaxOverlapSize == 1
\* longest strings, in characters, drawn for direct calls of the tokenizer
MaxTokenLen == 3
MaxOtherLen == 3
\* largest max_tokens drawn for a direct call of segment()
MaxSegmentTokens == 3
\* longest segment list drawn for a direct call of merge_segments()
MaxSegments == 3

(***************************************************************************)
(* Character classes of the alphabet.                                      *)
(***************************************************************************)
\* \p{L}
Letters == {"a", "d", "e", "f", "i", "l", "m", "n", "o", "p", "r", "s", "t",
            "u", "x"}
\* \p{N}
Digits == {"1"}
\* [\r\n]
LineBreaks == {"\n", "\r"}
\* \s of the regex crates and char::is_whitespace (str::trim)
WhiteSpace == {" ", "\t", "\n", "\r", "\f"}
\* the members of [\x00-\x08\x0B\x0C\x0E-\x1F\x7F] in the alphabet
ControlChars == {"\f"}
\* the characters page texts are drawn from
Chars == {"a", "1", ".", " ", "\n", "\r"}
\* the characters blank pages are drawn from
BlankChars == {" ", "\t", "\n", "\f"}
\* the characters the longer page texts are drawn from
LongChars == {"a", " ", "\n", "\r"}

\* the two bytes of the model's non-ASCII character; it is no letter, no
\* digit and no whitespace
Utf8Lead == "0xCD"
Utf8Cont == "0xB8"
WideChar == <<Utf8Lead, Utf8Cont>>
\* the characters, as byte strings, the non-ASCII page texts are drawn from
WideChars == {<<"a">>, <<" ">>, <<"\n">>, WideChar}

\* the number of bytes of the character that starts at s[i]
CharLen(s, i) == IF s[i] = Utf8Lead THEN 2 ELSE 1

\* the bytes of a sequence of characters
RECURSIVE Utf8Bytes(_)
Utf8Bytes(cs) == IF cs = <<>> THEN <<>> ELSE Head(cs) \o Utf8Bytes(Tail(cs))

\* String::from_utf8(bytes).is_ok()
RECURSIVE ValidUtf8(_)
ValidUtf8(bytes) ==
    IF bytes = <<>> THEN TRUE
    ELSE IF Head(bytes) = Utf8Lead
         THEN Len(bytes) >= 2 /\ bytes[2] = Utf8Cont
                  /\ ValidUtf8(SubSeq(bytes, 3, Len(bytes)))
         ELSE Head(bytes) # Utf8Cont /\ ValidUtf8(Tail(bytes))

\* every text over alphabet A of length at most n
TextsOver(A, n) == UNION {[1..k -> A] : k \in 0..n}

Max(S) == CHOOSE x \in S : \A y \in S : y <= x
Min(S) == CHOOSE x \in S : \A y \in S : x <= y

\* index of the last character of the maximal run of characters of `class`
\* that starts at i; i - 1 when s[i] is not in the class
RECURSIVE RunEnd(_, _, _)
RunEnd(s, i, class) ==
    IF i <= Len(s) /\ s[i] \in class THEN RunEnd(s, i + 1, class) ELSE i - 1

\* s[from..] (1-based, inclusive)
Tail0(s, from) == SubSeq(s, from, Len(s))

\* str::trim_start
RECURSIVE TrimStart(_)
TrimStart(s) ==
    IF s # <<>> /\ Head(s) \in WhiteSpace THEN TrimStart(Tail(s)) ELSE s

\* str::trim_end
RECURSIVE TrimEnd(_)
TrimEnd(s) ==
    IF s # <<>> /\ s[Len(s)] \in WhiteSpace
    THEN TrimEnd(SubSeq(s, 1, Len(s) - 1)) ELSE s

\* str::trim
Trim(s) == TrimEnd(TrimStart(s))

(***************************************************************************)
(* TextPreprocessor (text_preprocessor.rs)                                 *)
(***************************************************************************)
\* control_chars_regex.replace_all(text, "")
RemoveControlChars(s) == SelectSeq(s, LAMBDA c : c \notin ControlChars)

\* MatchExcessiveNewlines asking for four "\n" where the pattern asks for
\* three
MatchExcessiveNewlinesFour(s, i) ==
    IF s[i] # "\n" THEN 0
    ELSE LET nl == {k \in i..RunEnd(s, i, WhiteSpace) : s[k] = "\n"}
         IN  IF Cardinality(nl) >= 4 THEN Max(nl) ELSE 0

\* The end of the match of \n\s*\n\s*\n+ that starts at i, 0 when there is
\* none.  Everything the pattern matches is whitespace, so a match lies in
\* the whitespace run that starts at i and needs three "\n" in it, the
\* first at i.  Both \s* are greedy and give back only until the rest
\* matches, which leaves the final \n+ on the last "\n" of the run.
MatchExcessiveNewlines(s, i) ==
    IF s[i] # "\n" THEN 0
    ELSE LET nl == {k \in i..RunEnd(s, i, WhiteSpace) : s[k] = "\n"}
         IN  IF Cardinality(nl) >= 3 THEN Max(nl) ELSE 0

\* excessive_newlines_regex.replace_all(s, "\n\n"), scanning from i
RECURSIVE ReplaceExcessiveNewlines(_, _)
ReplaceExcessiveNewlines(s, i) ==
    IF i > Len(s) THEN <<>>
    ELSE LET e == MatchExcessiveNewlines(s, i)
         IN  IF e > 0
             THEN <<"\n", "\n">> \o ReplaceExcessiveNewlines(s, e + 1)
             ELSE <<s[i]>> \o ReplaceExcessiveNewlines(s, i + 1)

\* CleanSpaces replacing pairs, [ \t]{2}, where the pattern takes runs
RECURSIVE CleanSpacesPairs(_, _)
CleanSpacesPairs(s, i) ==
    IF i > Len(s) THEN <<>>
    ELSE IF i < Len(s) /\ s[i] \in {" ", "\t"} /\ s[i + 1] \in {" ", "\t"}
         THEN <<" ">> \o CleanSpacesPairs(s, i + 2)
         ELSE <<s[i]>> \o CleanSpacesPairs(s, i + 1)

\* whitespace_cleanup_regex.replace_all(s, " "): each run [ \t]+ becomes " "
RECURSIVE CleanSpaces(_, _)
CleanSpaces(s, i) ==
    IF i > Len(s) THEN <<>>
    ELSE IF s[i] \in {" ", "\t"}
         THEN <<" ">> \o CleanSpaces(s, RunEnd(s, i, {" ", "\t"}) + 1)
         ELSE <<s[i]>> \o CleanSpaces(s, i + 1)

\* TextPreprocessor::preprocess
Preprocess(text) ==
    LET no_control == RemoveControlChars(text)
        clean_newlines == ReplaceExcessiveNewlines(no_control, 1)
        clean_spaces == CleanSpaces(clean_newlines, 1)
    IN  Trim(clean_spaces)

(***************************************************************************)
(* The vocabulary.  The repository loads o200k_base.tiktoken (about        *)
(* 200 000 entries); the model keeps the property the data model states,   *)
(* one entry for every single byte with no rank used twice, and a handful  *)
(* of merged entries so that byte-pair merging has work to do.             *)
(***************************************************************************)
\* Rank::MAX, the sentinel for "no vocabulary entry"; the code's 2^32 - 1
\* is beyond TLC's integers, and only "above every rank" is used of it
RankMax == 1000000

\* The published table numbers its entries from 0 without a gap, so a table
\* of about 200 000 entries has an entry at every rank up to 199 997; the
\* last entry below stands for the one at rank 100257, with bytes that occur
\* in no text of the model.
Encoder ==
    <<"a">> :> 0 @@ <<"1">> :> 1 @@ <<".">> :> 2 @@ <<" ">> :> 3 @@
    <<"\n">> :> 4 @@ <<"\r">> :> 5 @@ <<"\t">> :> 6 @@ <<"\f">> :> 7 @@
    <<" ", "a">> :> 8 @@ <<"a", "a">> :> 9 @@ <<"\n", "\n">> :> 10 @@
    <<" ", "a", "a">> :> 11 @@ <<Utf8Lead>> :> 12 @@ <<Utf8Cont>> :> 13 @@
    <<"a", "a", "a">> :> 14 @@
    <<"<">> :> 15 @@ <<"|">> :> 16 @@ <<">">> :> 17 @@ <<"_">> :> 18 @@
    <<"d">> :> 19 @@ <<"e">> :> 20 @@ <<"f">> :> 21 @@ <<"i">> :> 22 @@
    <<"l">> :> 23 @@ <<"m">> :> 24 @@ <<"n">> :> 25 @@ <<"o">> :> 26 @@
    <<"p">> :> 27 @@ <<"r">> :> 28 @@ <<"s">> :> 29 @@ <<"t">> :> 30 @@
    <<"u">> :> 31 @@ <<"x">> :> 32 @@
    <<"_", "_">> :> 100257

\* ranks.get(bytes).unwrap_or(&Rank::MAX)
RankOf(bytes) == IF bytes \in DOMAIN Encoder THEN Encoder[bytes] ELSE RankMax

\* the labels of the special tokens (o200k_vocab.rs)
EndOfText == <<"<", "|", "e", "n", "d", "o", "f", "t", "e", "x", "t", "|", ">">>
FimPrefix == <<"<", "|", "f", "i", "m", "_", "p", "r", "e", "f", "i", "x", "|", ">">>
FimMiddle == <<"<", "|", "f", "i", "m", "_", "m", "i", "d", "d", "l", "e", "|", ">">>
FimSuffix == <<"<", "|", "f", "i", "m", "_", "s", "u", "f", "f", "i", "x", "|", ">">>
EndOfPrompt ==
    <<"<", "|", "e", "n", "d", "o", "f", "p", "r", "o", "m", "p", "t", "|", ">">>
ImStart == <<"<", "|", "i", "m", "_", "s", "t", "a", "r", "t", "|", ">">>
ImEnd == <<"<", "|", "i", "m", "_", "e", "n", "d", "|", ">">>
ImSep == <<"<", "|", "i", "m", "_", "s", "e", "p", "|", ">">>

\* load_o200k_base_special_tokens
SpecialTokensEncoder ==
    EndOfText :> 100257 @@ FimPrefix :> 100258 @@ FimMiddle :> 100259 @@
    FimSuffix :> 100260 @@ EndOfPrompt :> 100276 @@ ImStart :> 100264 @@
    ImEnd :> 100265 @@ ImSep :> 100266

\* decoder: encoder.iter().map(|(k, v)| (*v, k.clone()))
Decoder == [r \in {Encoder[b] : b \in DOMAIN Encoder} |->
              CHOOSE b \in DOMAIN Encoder : Encoder[b] = r]

\* special_tokens_decoder: special_tokens_encoder.iter().map(|(k, v)| (*v, k.as_bytes().to_vec()))
SpecialTokensDecoder ==
    [r \in {SpecialTokensEncoder[l] : l \in DOMAIN SpecialTokensEncoder} |->
        CHOOSE l \in DOMAIN SpecialTokensEncoder : SpecialTokensEncoder[l] = r]

(***************************************************************************)
(* Pre-tokenization: O200K_BASE_PATTERN, one alternative per operator.     *)
(* Each gives the index of the last character of its match at i, or 0.     *)
(***************************************************************************)
\* (?i:'s|'t|'re|'ve|'m|'ll|'d)
ContractionPiece(s, i) ==
    IF s[i] = "'" /\ i < Len(s) /\ s[i + 1] \in {"s", "t", "m", "d", "S", "T", "M", "D"}
    THEN i + 1
    ELSE IF s[i] = "'" /\ i + 1 < Len(s)
            /\ <<s[i + 1], s[i + 2]>> \in
                 {<<x, y>> : x \in {"r", "R"}, y \in {"e", "E"}} \cup
                 {<<x, y>> : x \in {"v", "V"}, y \in {"e", "E"}} \cup
                 {<<x, y>> : x \in {"l", "L"}, y \in {"l", "L"}}
         THEN i + 2
         ELSE 0

\* [^\r\n\p{L}\p{N}]?\p{L}+
LetterPiece(s, i) ==
    IF s[i] \in Letters THEN RunEnd(s, i, Letters)
    ELSE IF s[i] \notin (LineBreaks \cup Digits)
            /\ i + CharLen(s, i) <= Len(s)
            /\ s[i + CharLen(s, i)] \in Letters
         THEN RunEnd(s, i + CharLen(s, i), Letters)
         ELSE 0

\* \p{N}{1,3}
DigitPiece(s, i) ==
    IF s[i] \in Digits THEN Min({RunEnd(s, i, Digits), i + 2}) ELSE 0

\* [^\s\p{L}\p{N}]
IsPunct(c) == c \notin (WhiteSpace \cup Letters \cup Digits)

\* index of the last character of the run of [^\s\p{L}\p{N}] starting at i
RECURSIVE PunctRunEnd(_, _)
PunctRunEnd(s, i) ==
    IF i <= Len(s) /\ IsPunct(s[i]) THEN PunctRunEnd(s, i + 1) ELSE i - 1

\*  ?[^\s\p{L}\p{N}]+[\r\n]*
PunctPiece(s, i) ==
    LET p == IF s[i] = " " THEN i + 1 ELSE i
    IN  IF p <= Len(s) /\ IsPunct(s[p])
        THEN RunEnd(s, PunctRunEnd(s, p) + 1, LineBreaks)
        ELSE 0

\* \s*[\r\n]+ : the greedy \s* gives back until [\r\n]+ can start, which
\* is at the last line break of the whitespace run
NewlinePiece(s, i) ==
    LET nl == {k \in i..RunEnd(s, i, WhiteSpace) : s[k] \in LineBreaks}
    IN  IF nl # {} THEN Max(nl) ELSE 0

\* \s+(?!\S) : the whole run at the end of the text, else all but its last
\* character
TrailingSpacePiece(s, i) ==
    LET e == RunEnd(s, i, WhiteSpace)
    IN  IF e < i THEN 0
        ELSE IF e = Len(s) THEN e
        ELSE IF e - 1 >= i THEN e - 1 ELSE 0

\* \s+
SpacePiece(s, i) ==
    LET e == RunEnd(s, i, WhiteSpace) IN IF e >= i THEN e ELSE 0

\* the first alternative of the pattern that matches at i decides the piece
PieceEnd(s, i) ==
    IF ContractionPiece(s, i) > 0 THEN ContractionPiece(s, i)
    ELSE IF LetterPiece(s, i) > 0 THEN LetterPiece(s, i)
    ELSE IF DigitPiece(s, i) > 0 THEN DigitPiece(s, i)
    ELSE IF PunctPiece(s, i) > 0 THEN PunctPiece(s, i)
    ELSE IF NewlinePiece(s, i) > 0 THEN NewlinePiece(s, i)
    ELSE IF TrailingSpacePiece(s, i) > 0 THEN TrailingSpacePiece(s, i)
    ELSE SpacePiece(s, i)

\* regex.find_iter(text): the pieces from position i on, in order; a
\* position where nothing matches is skipped
RECURSIVE Pieces(_, _)
Pieces(s, i) ==
    IF i > Len(s) THEN <<>>
    ELSE LET e == PieceEnd(s, i)
         IN  IF e = 0 THEN Pieces(s, i + 1)
             ELSE <<SubSeq(s, i, e)>> \o Pieces(s, e + 1)

(***************************************************************************)
(* Byte-pair merge (tiktoken_core.rs).  parts is the code's vector of      *)
(* (position, rank); positions are 0-based offsets into the piece and      *)
(* the code's index k of parts is index k + 1 of the sequence.             *)
(***************************************************************************)
\* &piece[a..b]
Slice(piece, a, b) == SubSeq(piece, a + 1, b)

\* MinRank taking the last of equal smallest ranks (rank <= min_rank.0)
RECURSIVE MinRankRightmost(_, _)
MinRankRightmost(parts, n) ==
    IF n = 0 THEN <<RankMax, 0>>
    ELSE LET before == MinRankRightmost(parts, n - 1)
         IN  IF parts[n][2] <= before[1] /\ parts[n][2] < RankMax
             THEN <<parts[n][2], n - 1>> ELSE before

\* the scan for min_rank over parts[0..n-1]: the leftmost smallest rank as
\* (rank, index), <<RankMax, 0>> when no rank is below Rank::MAX (the
\* code's index is then usize::MAX and is never read)
RECURSIVE MinRank(_, _)
MinRank(parts, n) ==
    IF n = 0 THEN <<RankMax, 0>>
    ELSE LET before == MinRank(parts, n - 1)
         IN  IF parts[n][2] < before[1] THEN <<parts[n][2], n - 1>> ELSE before

\* the first loop of _byte_pair_merge and the two sentinels
InitialParts(piece) ==
    [k \in 1..(Len(piece) + 1) |->
        IF k <= Len(piece) - 1
        THEN <<k - 1, RankOf(Slice(piece, k - 1, k + 1))>>
        ELSE <<k - 1, RankMax>>]

\* the closure get_rank
GetRank(piece, parts, i) ==
    IF i + 3 < Len(parts)
    THEN RankOf(Slice(piece, parts[i + 1][1], parts[i + 4][1]))
    ELSE RankMax

\* parts.remove(i)
RemoveAt(parts, i) ==
    [k \in 1..(Len(parts) - 1) |-> IF k <= i THEN parts[k] ELSE parts[k + 1]]

\* the body of the while loop of _byte_pair_merge at i = min_rank.1
MergeAt(piece, parts, i) ==
    LET p1 == IF i > 0
              THEN [parts EXCEPT ![i] = <<parts[i][1], GetRank(piece, parts, i - 1)>>]
              ELSE parts
        p2 == [p1 EXCEPT ![i + 1] = <<p1[i + 1][1], GetRank(piece, p1, i)>>]
    IN  RemoveAt(p2, i + 1)

\* the while loop of _byte_pair_merge
RECURSIVE MergeLoop(_, _)
MergeLoop(piece, parts) ==
    LET min_rank == MinRank(parts, Len(parts) - 1)
    IN  IF min_rank[1] = RankMax THEN parts
        ELSE MergeLoop(piece, MergeAt(piece, parts, min_rank[2]))

\* _byte_pair_merge
BytePairMerge(piece) == MergeLoop(piece, InitialParts(piece))

\* PartRanks looking up only the first byte of every span
PartRanksFirstBytes(piece, parts) ==
    [k \in 1..(Len(parts) - 1) |->
        RankOf(Slice(piece, parts[k][1], parts[k][1] + 1))]

\* .windows(2).map(|part| ranks[&piece[part[0].0..part[1].0]]): the rank of
\* every span, RankMax where the index expression would find no entry
PartRanks(piece, parts) ==
    [k \in 1..(Len(parts) - 1) |->
        RankOf(Slice(piece, parts[k][1], parts[k + 1][1]))]

\* BytePairEncode emitting the rank of the first byte of each part
BytePairEncodeFirstBytes(piece) ==
    IF Len(piece) = 1 THEN <<Encoder[piece]>>
    ELSE LET parts == BytePairMerge(piece)
         IN  [k \in 1..(Len(parts) - 1) |->
                 Encoder[Slice(piece, parts[k][1], parts[k][1] + 1)]]

\* byte_pair_encode
BytePairEncode(piece) ==
    IF Len(piece) = 1 THEN <<Encoder[piece]>>
    ELSE LET parts == BytePairMerge(piece)
         IN  [k \in 1..(Len(parts) - 1) |->
                 Encoder[Slice(piece, parts[k][1], parts[k + 1][1])]]

\* EncodePiece whose lookup of the whole piece gives the rank of its first
\* byte
EncodePieceFirstByte(piece) ==
    IF piece \in DOMAIN Encoder THEN <<Encoder[<<piece[1]>>]>>
    ELSE BytePairEncode(piece)

\* the match arm of encode_ordinary for one piece
EncodePiece(piece) ==
    IF piece \in DOMAIN Encoder THEN <<Encoder[piece]>> ELSE BytePairEncode(piece)

\* EncodePieces keeping only what the last piece gave (ret assigned where
\* the code extends it)
EncodePiecesKeepLast(ps) ==
    IF ps = <<>> THEN <<>> ELSE EncodePiece(ps[Len(ps)])

\* the for loop of encode_ordinary over the pieces
RECURSIVE EncodePieces(_)
EncodePieces(ps) ==
    IF ps = <<>> THEN <<>> ELSE EncodePiece(Head(ps)) \o EncodePieces(Tail(ps))

\* CoreBPE::encode_ordinary
EncodeOrdinary(text) == EncodePieces(Pieces(text, 1))

\* the lookup of decode for one token: the decoder first, then the
\* special_tokens_decoder; <<"invalid">> stands for the error "Invalid token"
TokenBytes(token) ==
    IF token \in DOMAIN Decoder THEN Decoder[token]
    ELSE IF token \in DOMAIN SpecialTokensDecoder THEN SpecialTokensDecoder[token]
    ELSE <<"invalid">>

\* the loop of decode: the bytes `ret`
RECURSIVE DecodeBytes(_)
DecodeBytes(tokens) ==
    IF tokens = <<>> THEN <<>>
    ELSE TokenBytes(Head(tokens)) \o DecodeBytes(Tail(tokens))

\* CoreBPE::decode: Ok(text), or Err(SystemError) when a token is in
\* neither decoder or the bytes are not UTF-8
Decode(tokens) ==
    LET ret == DecodeBytes(tokens)
    IN  IF /\ \A k \in 1..Len(tokens) : TokenBytes(tokens[k]) # <<"invalid">>
           /\ ValidUtf8(ret)
        THEN [ok |-> TRUE, value |-> ret]
        ELSE [ok |-> FALSE, value |-> <<>>]

(***************************************************************************)
(* Special tokens (o200k_vocab.rs) and the search of CoreBPE::encode for   *)
(* them.  A match is <<start, end>> in 0-based offsets, <<>> is None.      *)
(***************************************************************************)
\* the labels the special regex matches at offset i of s: the alternation
\* of the escaped labels; no label is a prefix of another, so there is at
\* most one
SpecialsAt(s, i) ==
    {label \in DOMAIN SpecialTokensEncoder :
        i + Len(label) <= Len(s) /\ Slice(s, i, i + Len(label)) = label}

\* special_regex.find_from_pos(text, from): the leftmost match at or after
\* from
FindFromPos(s, from) ==
    LET at == {i \in from..Len(s) : SpecialsAt(s, i) # {}}
    IN  IF at = {} THEN <<>>
        ELSE LET i == Min(at)
                 label == CHOOSE l \in SpecialsAt(s, i) : TRUE
             IN  <<i, i + Len(label)>>

\* IsAllowed with the allow-list ignored
IsAllowedAlways(allowed, s, m) == TRUE

\* allowed_special.contains(&text[m.start()..m.end()])
IsAllowed(allowed, s, m) == Slice(s, m[1], m[2]) \in allowed

(***************************************************************************)
(* SemanticSegmenter (semantic_segmenter.rs).  A segment is a record       *)
(* [text, start_offset, end_offset, semantic_level].                       *)
(***************************************************************************)
\* SemanticSegmenter::new: the separator entries in order, index 0 first.
\* The three header patterns hold no regex operator, so they match as
\* literals; only \n\n+ is a proper regex.
Separators ==
    << [kind |-> "regex",   pat |-> <<"\n", "\n">>,           level |-> 0],
       [kind |-> "literal", pat |-> <<"\n", "#", "#", "#", " ">>, level |-> 1],
       [kind |-> "literal", pat |-> <<"\n", "#", "#", " ">>,  level |-> 1],
       [kind |-> "literal", pat |-> <<"\n", "#", " ">>,       level |-> 1],
       [kind |-> "literal", pat |-> <<"\n">>,                 level |-> 2],
       [kind |-> "literal", pat |-> <<".", " ">>,             level |-> 3],
       [kind |-> "literal", pat |-> <<"?", " ">>,             level |-> 3],
       [kind |-> "literal", pat |-> <<"!", " ">>,             level |-> 3],
       [kind |-> "literal", pat |-> <<";", " ">>,             level |-> 4],
       [kind |-> "literal", pat |-> <<",", " ">>,             level |-> 4],
       [kind |-> "literal", pat |-> <<" ">>,                  level |-> 5] >>

\* index of the last character of the separator's match at i, 0 when it
\* does not match there; \n\n+ takes the whole run of "\n"
MatchSeparator(s, i, sep) ==
    IF i + Len(sep.pat) - 1 > Len(s) THEN 0
    ELSE IF SubSeq(s, i, i + Len(sep.pat) - 1) # sep.pat THEN 0
    ELSE IF sep.kind = "regex" THEN RunEnd(s, i, {"\n"})
    ELSE i + Len(sep.pat) - 1

\* regex.split(text) and text.split(separator): the substrings between
\* the successive leftmost matches, the empty ones included; `start` is
\* where the current substring began and i the scan position
RECURSIVE SplitAt(_, _, _, _)
SplitAt(s, sep, i, start) ==
    IF i > Len(s) THEN <<SubSeq(s, start, Len(s))>>
    ELSE LET e == MatchSeparator(s, i, sep)
         IN  IF e > 0
             THEN <<SubSeq(s, start, i - 1)>> \o SplitAt(s, sep, e + 1, e + 1)
             ELSE SplitAt(s, sep, i + 1, start)

\* .filter(|s| !s.trim().is_empty())
KeepNonBlank(pieces) == SelectSeq(pieces, LAMBDA p : Trim(p) # <<>>)

\* SplitBy losing the piece after the last separator
SplitByDropsTail(s, sep) ==
    LET kept == KeepNonBlank(SplitAt(s, sep, 1, 1))
    IN  IF Len(kept) > 2 THEN SubSeq(kept, 1, Len(kept) - 1) ELSE kept

\* split_by_regex and split_by_literal
SplitBy(s, sep) == KeepNonBlank(SplitAt(s, sep, 1, 1))

\* the loop of split_segment that turns the pieces into segments:
\* current_offset starts at the segment's start and advances by the length
\* of each piece it keeps
RECURSIVE SplitsToSegments(_, _, _)
SplitsToSegments(splits, current_offset, separator_level) ==
    IF splits = <<>> THEN <<>>
    ELSE LET split_text == Head(splits)
         IN  IF Trim(split_text) # <<>>
             THEN <<[text |-> split_text,
                     start_offset |-> current_offset,
                     end_offset |-> current_offset + Len(split_text),
                     semantic_level |-> separator_level]>>
                  \o SplitsToSegments(Tail(splits),
                                      current_offset + Len(split_text),
                                      separator_level)
             ELSE SplitsToSegments(Tail(splits), current_offset, separator_level)

\* SplitSegment never splitting by the last separator, the space
SplitSegmentKeepsWords(segment, separator_level) ==
    IF separator_level >= Len(Separators) - 1 THEN <<segment>>
    ELSE LET splits == SplitBy(segment.text, Separators[separator_level + 1])
         IN  IF Len(splits) <= 1 THEN <<segment>>
             ELSE SplitsToSegments(splits, segment.start_offset, separator_level)

\* SemanticSegmenter::split_segment; separator_level is the code's 0-based
\* index into separators
SplitSegment(segment, separator_level) ==
    IF separator_level >= Len(Separators) THEN <<segment>>
    ELSE LET splits == SplitBy(segment.text, Separators[separator_level + 1])
         IN  IF Len(splits) <= 1 THEN <<segment>>
             ELSE SplitsToSegments(splits, segment.start_offset, separator_level)

\* the for loop of recursive_split: <<result, needs_further_splitting>>
RECURSIVE SplitPass(_, _, _)
SplitPass(segs, max_tokens, separator_level) ==
    IF segs = <<>> THEN <<<<>>, <<>>>>
    ELSE LET segment == Head(segs)
             rest == SplitPass(Tail(segs), max_tokens, separator_level)
             token_count == Len(EncodeOrdinary(segment.text))
         IN  IF token_count <= max_tokens
             THEN <<<<segment>> \o rest[1], rest[2]>>
             ELSE LET split_segments == SplitSegment(segment, separator_level)
                  IN  IF Len(split_segments) > 1
                      THEN <<rest[1], split_segments \o rest[2]>>
                      ELSE <<rest[1], <<segment>> \o rest[2]>>

\* SemanticSegmenter::recursive_split
RECURSIVE RecursiveSplit(_, _, _)
RecursiveSplit(segs, max_tokens, separator_level) ==
    IF separator_level >= Len(Separators) THEN segs
    ELSE LET pass == SplitPass(segs, max_tokens, separator_level)
             result == pass[1]
             needs_further_splitting == pass[2]
         IN  IF needs_further_splitting # <<>>
             THEN result \o RecursiveSplit(needs_further_splitting, max_tokens,
                                           separator_level + 1)
             ELSE result

\* SemanticSegmenter::segment
Segment(t, max_tokens) ==
    RecursiveSplit(<<[text |-> t, start_offset |-> 0, end_offset |-> Len(t),
                      semantic_level |-> 0]>>, max_tokens, 0)

(***************************************************************************)
(* ChunkMerger (chunk_merger.rs).  A chunk is a record                     *)
(* [text, token_count, start_offset, end_offset, segments], segments       *)
(* being the 0-based indices of its members.                               *)
(***************************************************************************)
\* MakeChunk with start_offset left at its initial 0
MakeChunkStartsAtZero(chunk_text, start, end, members) ==
    [text |-> chunk_text, token_count |-> Len(EncodeOrdinary(chunk_text)),
     start_offset |-> 0, end_offset |-> end, segments |-> members]

\* SemanticChunk { text, token_count: encode_ordinary(text).len(), .. }
MakeChunk(chunk_text, start, end, members) ==
    [text |-> chunk_text, token_count |-> Len(EncodeOrdinary(chunk_text)),
     start_offset |-> start, end_offset |-> end, segments |-> members]

\* ClosesChunk with the budget test off by one
ClosesChunkLate(potential_tokens, target, current_chunk_text) ==
    potential_tokens > target + 1 /\ current_chunk_text # <<>>

\* ClosesChunk closing as soon as the budget is reached
ClosesChunkEarly(potential_tokens, target, current_chunk_text) ==
    potential_tokens >= target /\ current_chunk_text # <<>>

\* the test that closes the current chunk before the segment is added
ClosesChunk(potential_tokens, target, current_chunk_text) ==
    potential_tokens > target /\ current_chunk_text # <<>>

\* one iteration of the for loop of merge_segments, on the segment of
\* 0-based index i; st holds the loop's mutable locals
MergeStep(st, segment, i, target) ==
    LET potential_text ==
            IF st.current_chunk_text = <<>> THEN segment.text
            ELSE st.current_chunk_text \o <<" ">> \o segment.text
        potential_tokens == Len(EncodeOrdinary(potential_text))
    IN  IF ClosesChunk(potential_tokens, target, st.current_chunk_text)
        THEN [chunks |-> Append(st.chunks,
                                MakeChunk(st.current_chunk_text,
                                          st.current_start_offset,
                                          st.current_end_offset,
                                          st.current_chunk_segments)),
              current_chunk_text |-> segment.text,
              current_chunk_segments |-> <<i>>,
              current_start_offset |-> segment.start_offset,
              current_end_offset |-> segment.end_offset]
        ELSE [chunks |-> st.chunks,
              current_chunk_text |->
                  IF st.current_chunk_text = <<>> THEN segment.text
                  ELSE potential_text,
              current_chunk_segments |-> Append(st.current_chunk_segments, i),
              current_start_offset |->
                  IF st.current_chunk_text = <<>> THEN segment.start_offset
                  ELSE st.current_start_offset,
              current_end_offset |-> segment.end_offset]

\* the for loop of merge_segments over segs[1..n]
RECURSIVE MergeLoopOver(_, _, _)
MergeLoopOver(segs, n, target) ==
    IF n = 0
    THEN [chunks |-> <<>>, current_chunk_text |-> <<>>,
          current_chunk_segments |-> <<>>, current_start_offset |-> 0,
          current_end_offset |-> 0]
    ELSE MergeStep(MergeLoopOver(segs, n - 1, target), segs[n], n - 1, target)

\* ChunkMerger::merge_segments
MergeSegments(segs, target) ==
    IF segs = <<>> THEN <<>>
    ELSE LET st == MergeLoopOver(segs, Len(segs), target)
         IN  IF st.current_chunk_text # <<>>
             THEN Append(st.chunks,
                         MakeChunk(st.current_chunk_text, st.current_start_offset,
                                   st.current_end_offset, st.current_chunk_segments))
             ELSE st.chunks

(***************************************************************************)
(* ChunkOverlapper (chunk_overlapper.rs).  A record of the output is       *)
(* [page, chunk_id, text, source, token_count].                            *)
(***************************************************************************)
\* the tokens the overlap is decoded from: &previous_tokens[overlap_start..]
OverlapTokens(previous_tokens, overlap) ==
    LET overlap_start ==
            IF Len(previous_tokens) > overlap
            THEN Len(previous_tokens) - overlap ELSE 0
    IN  SubSeq(previous_tokens, overlap_start + 1, Len(previous_tokens))

\* combined_text of add_overlap_to_chunk
CombineOverlap(overlap_text, chunk_text) ==
    IF Trim(overlap_text) = <<>> THEN chunk_text
    ELSE IF Trim(chunk_text) = <<>> THEN overlap_text
    ELSE Trim(overlap_text) \o <<" ">> \o Trim(chunk_text)

\* AddOverlapToChunk answering a failed decode with the chunk as it is
AddOverlapToChunkSwallowing(current_chunk, previous_tokens, overlap) ==
    IF overlap = 0 \/ previous_tokens = <<>>
    THEN [ok |-> TRUE, value |-> current_chunk.text]
    ELSE LET overlap_text == Decode(OverlapTokens(previous_tokens, overlap))
         IN  IF overlap_text.ok
             THEN [ok |-> TRUE,
                   value |-> CombineOverlap(overlap_text.value,
                                            current_chunk.text)]
             ELSE [ok |-> TRUE, value |-> current_chunk.text]

\* ChunkOverlapper::add_overlap_to_chunk: Ok(combined_text), or
\* Err(ChunkingError) when the overlap tokens do not decode
AddOverlapToChunk(current_chunk, previous_tokens, overlap) ==
    IF overlap = 0 \/ previous_tokens = <<>>
    THEN [ok |-> TRUE, value |-> current_chunk.text]
    ELSE LET overlap_text == Decode(OverlapTokens(previous_tokens, overlap))
         IN  IF overlap_text.ok
             THEN [ok |-> TRUE,
                   value |-> CombineOverlap(overlap_text.value,
                                            current_chunk.text)]
             ELSE [ok |-> FALSE, value |-> <<>>]

\* MakeRecord numbering the chunks from 1
MakeRecordFromOne(page, chunk_id, chunk_text, src, token_count) ==
    [page |-> page, chunk_id |-> chunk_id + 1, text |-> chunk_text,
     source |-> src, token_count |-> token_count]

\* ChunkMetadata { page, chunk_id, text, source, token_count }
MakeRecord(page, chunk_id, chunk_text, src, token_count) ==
    [page |-> page, chunk_id |-> chunk_id, text |-> chunk_text,
     source |-> src, token_count |-> token_count]

\* NextPreviousTokens keeping the tokens of the chunk before its overlap
NextPreviousTokensPreOverlap(chunk_tokens, semantic_chunk) ==
    EncodeOrdinary(semantic_chunk.text)

\* previous_chunk_tokens = Some(chunk_tokens): the tokens of the final text
\* are kept for the next iteration's overlap
NextPreviousTokens(chunk_tokens, semantic_chunk) == chunk_tokens

\* the for loop of add_overlap_and_finalize over chunks[1..n]:
\* [ok, final_chunks, previous_chunk_tokens]; previous_chunk_tokens is the
\* Option, <<>> for None and <<tokens>> for Some(tokens); ok is FALSE once
\* the `?` on add_overlap_to_chunk has returned the error
RECURSIVE OverlapLoop(_, _, _, _, _)
OverlapLoop(chunks, n, page, src, overlap) ==
    IF n = 0
    THEN [ok |-> TRUE, final_chunks |-> <<>>, previous_chunk_tokens |-> <<>>]
    ELSE LET st == OverlapLoop(chunks, n - 1, page, src, overlap)
             chunk_id == n - 1
             semantic_chunk == chunks[n]
             chunk_text ==
                 IF chunk_id = 0 \/ st.previous_chunk_tokens = <<>>
                 THEN [ok |-> TRUE, value |-> semantic_chunk.text]
                 ELSE AddOverlapToChunk(semantic_chunk,
                                        st.previous_chunk_tokens[1], overlap)
             chunk_tokens == EncodeOrdinary(chunk_text.value)
         IN  IF ~st.ok THEN st
             ELSE IF ~chunk_text.ok
             THEN [ok |-> FALSE, final_chunks |-> <<>>,
                   previous_chunk_tokens |-> <<>>]
             ELSE [ok |-> TRUE,
                   final_chunks |->
                       Append(st.final_chunks,
                              MakeRecord(page, chunk_id, chunk_text.value, src,
                                         Len(chunk_tokens))),
                   previous_chunk_tokens |->
                       <<NextPreviousTokens(chunk_tokens, semantic_chunk)>>]

\* ChunkOverlapper::add_overlap_and_finalize: Ok(final_chunks) or the error
AddOverlapAndFinalize(chunks, page, src, overlap) ==
    IF chunks = <<>> THEN [ok |-> TRUE, value |-> <<>>]
    ELSE LET st == OverlapLoop(chunks, Len(chunks), page, src, overlap)
         IN  [ok |-> st.ok, value |-> st.final_chunks]

(***************************************************************************)
(* SemanticChunker::chunk_page_text as a state machine: one action per     *)
(* stage of the pipeline, each stage run to completion.                    *)
(***************************************************************************)
VARIABLES
    page_num,         \* argument page_num
    text,             \* argument text
    source,           \* argument source
    target_tokens,    \* SemanticChunker.target_tokens (max_tokens of segment)
    overlap_tokens,   \* SemanticChunker.overlap_tokens
    pc,               \* where the call stands
    cleaned_text,     \* local cleaned_text
    segments,         \* local segments
    semantic_chunks,  \* local semantic_chunks
    returned,         \* the Ok value returned: <<>> before it, else <<list>>
    error,            \* the Err returned: "none" or the ProcessingError variant
    other_text,       \* a second string: handed to the tokenizer, or the
                      \* result of a second preprocess
    encoded,          \* what encode_ordinary returned
    decode_result,    \* what decode returned
    separator_level,  \* argument separator_level of recursive_split
    needs_further_splitting,
                      \* argument segments of the recursive_split call
                      \* that is about to run: the caller's
                      \* needs_further_splitting
    result,           \* the result vectors of the callers, outermost first
    piece,            \* argument piece of _byte_pair_merge
    parts,            \* local parts of _byte_pair_merge
    merges,           \* how often the while loop of _byte_pair_merge ran
    allowed_special,  \* argument allowed_special of encode
    start,            \* local start of encode
    start_find,       \* local start_find of encode
    next_special,     \* local next_special of encode: <<>> for None, else
                      \* <<[start, end]>> with the match's 0-based bounds
    ret,              \* local ret of encode
    threads,          \* the ids of the threads that share the tokenizer
    regex_slot,       \* the index into regex_tls each thread inside
                      \* encode_ordinary holds
    chunk_size,       \* TextChunker.chunk_size
    overlap_size,     \* TextChunker.overlap_size
    step_size,        \* TextChunker.step_size
    tokens,           \* local tokens of chunk_page_text_simple
    start_token_idx,  \* local start_token_idx
    chunk_id,         \* local chunk_id
    chunks            \* local chunks

vars == <<page_num, text, source, target_tokens, overlap_tokens, pc,
          cleaned_text, segments, semantic_chunks, returned, error,
          other_text, encoded, decode_result,
          separator_level, needs_further_splitting, result,
          piece, parts, merges,
          allowed_special, start, start_find, next_special, ret,
          threads, regex_slot,
          chunk_size, overlap_size, step_size, tokens, start_token_idx,
          chunk_id, chunks>>

\* the variables of the direct tokenizer calls
tokenizer_vars == <<other_text, encoded, decode_result>>

\* the locals of recursive_split run call by call
segmenter_vars == <<separator_level, needs_further_splitting, result>>

\* the locals of _byte_pair_merge run one merge at a time
bpe_vars == <<piece, parts, merges>>

\* the locals of encode run one search and one stretch of text at a time
special_vars == <<allowed_special, start, start_find, next_special, ret>>

\* the threads that encode on one tokenizer
worker_vars == <<threads, regex_slot>>

\* the fields of TextChunker and the locals of chunk_page_text_simple
simple_vars == <<chunk_size, overlap_size, step_size, tokens, start_token_idx,
                 chunk_id, chunks>>

\* the locals of the routines that are run step by step
step_vars == <<segmenter_vars, bpe_vars, special_vars, worker_vars, simple_vars>>

\* no routine is being run step by step
StepVarsIdle ==
    /\ separator_level = 0
    /\ needs_further_splitting = <<>>
    /\ result = <<>>
    /\ piece = <<>>
    /\ parts = <<>>
    /\ merges = 0
    /\ allowed_special = {}
    /\ start = 0
    /\ start_find = 0
    /\ next_special = <<>>
    /\ ret = <<>>
    /\ threads = {}
    /\ regex_slot = <<>>
    /\ chunk_size = 0
    /\ overlap_size = 0
    /\ step_size = 0
    /\ tokens = <<>>
    /\ start_token_idx = 0
    /\ chunk_id = 0
    /\ chunks = <<>>

\* the page numbers and source labels drawn as arguments
Pages == {1}
Sources == {"doc.pdf"}

\* the characters of the pages with tabs and control characters
MarkupChars == {"a", "\t", "\n", "\f"}

\* the page texts drawn as input
PageTexts ==
    TextsOver(Chars, MaxLen) \cup TextsOver(BlankChars, MaxLen)
        \cup TextsOver(LongChars, MaxLongLen)
        \cup {Utf8Bytes(cs) : cs \in TextsOver(WideChars, MaxWideLen)}
        \cup TextsOver(MarkupChars, MaxMarkupLen)

\* a SemanticChunker after new(target_tokens, overlap_tokens), about to run
\* chunk_page_text(page_num, text, source)
Init ==
    /\ page_num \in Pages
    /\ text \in PageTexts
    /\ source \in Sources
    /\ target_tokens \in 0..MaxTarget
    /\ overlap_tokens \in 0..MaxOverlap
    /\ pc = "start"
    /\ cleaned_text = <<>>
    /\ segments = <<>>
    /\ semantic_chunks = <<>>
    /\ returned = <<>>
    /\ error = "none"
    /\ other_text = <<>>
    /\ encoded = <<>>
    /\ decode_result = <<>>
    /\ StepVarsIdle

\* PageIsEmpty testing the raw page text
PageIsEmptyRaw(cleaned) == text = <<>>

\* cleaned_text.trim().is_empty()
PageIsEmpty(cleaned) == Trim(cleaned) = <<>>

\* SingleChunk keeping the raw page text instead of the cleaned text
SingleChunkRaw(page, cleaned, src, total_tokens) ==
    [page |-> page, chunk_id |-> 0, text |-> text, source |-> src,
     token_count |-> total_tokens]

\* the record of the single chunk case
SingleChunk(page, cleaned, src, total_tokens) ==
    [page |-> page, chunk_id |-> 0, text |-> cleaned, source |-> src,
     token_count |-> total_tokens]

\* Step 1: let cleaned_text = self.preprocessor.preprocess(text)
PreprocessPage ==
    /\ pc = "start"
    /\ cleaned_text' = Preprocess(text)
    /\ pc' = "preprocessed"
    /\ UNCHANGED tokenizer_vars
    /\ UNCHANGED step_vars
    /\ UNCHANGED <<error, page_num, text, source, target_tokens, overlap_tokens,
                   segments, semantic_chunks, returned>>

\* if cleaned_text.trim().is_empty() { return Ok(vec![]) }
ReturnEmptyPage ==
    /\ pc = "preprocessed"
    /\ PageIsEmpty(cleaned_text)
    /\ returned' = << <<>> >>
    /\ pc' = "done"
    /\ UNCHANGED tokenizer_vars
    /\ UNCHANGED step_vars
    /\ UNCHANGED <<error, page_num, text, source, target_tokens, overlap_tokens,
                   cleaned_text, segments, semantic_chunks>>

\* if total_tokens <= self.target_tokens { return Ok(vec![single chunk]) }
ReturnSingleChunk ==
    /\ pc = "preprocessed"
    /\ ~PageIsEmpty(cleaned_text)
    /\ LET total_tokens == Len(EncodeOrdinary(cleaned_text))
       IN  /\ total_tokens <= target_tokens
           /\ returned' = << <<SingleChunk(page_num, cleaned_text, source,
                                           total_tokens)>> >>
    /\ pc' = "done"
    /\ UNCHANGED tokenizer_vars
    /\ UNCHANGED step_vars
    /\ UNCHANGED <<error, page_num, text, source, target_tokens, overlap_tokens,
                   cleaned_text, segments, semantic_chunks>>

\* Step 2: let segments = self.segmenter.segment(&cleaned_text, target, ..)
SegmentPage ==
    /\ pc = "preprocessed"
    /\ ~PageIsEmpty(cleaned_text)
    /\ Len(EncodeOrdinary(cleaned_text)) > target_tokens
    /\ segments' = Segment(cleaned_text, target_tokens)
    /\ pc' = "segmented"
    /\ UNCHANGED tokenizer_vars
    /\ UNCHANGED step_vars
    /\ UNCHANGED <<error, page_num, text, source, target_tokens, overlap_tokens,
                   cleaned_text, semantic_chunks, returned>>

\* if segments.is_empty() { return Ok(vec![]) }, else
\* Step 3: let semantic_chunks = merger.merge_segments(segments)?
MergePage ==
    /\ pc = "segmented"
    /\ IF segments = <<>>
       THEN /\ returned' = << <<>> >>
            /\ pc' = "done"
            /\ UNCHANGED semantic_chunks
       ELSE /\ semantic_chunks' = MergeSegments(segments, target_tokens)
            /\ pc' = "merged"
            /\ UNCHANGED returned
    /\ UNCHANGED tokenizer_vars
    /\ UNCHANGED step_vars
    /\ UNCHANGED <<error, page_num, text, source, target_tokens, overlap_tokens,
                   cleaned_text, segments>>

\* Step 4: overlapper.add_overlap_and_finalize(semantic_chunks, ..)?
\* and Ok(final_chunks)
OverlapPage ==
    /\ pc = "merged"
    /\ LET final_chunks == AddOverlapAndFinalize(semantic_chunks, page_num,
                                                 source, overlap_tokens)
       IN  IF final_chunks.ok
           THEN /\ returned' = <<final_chunks.value>>
                /\ pc' = "done"
                /\ UNCHANGED error
           ELSE /\ error' = "ChunkingError"
                /\ pc' = "failed"
                /\ UNCHANGED returned
    /\ UNCHANGED tokenizer_vars
    /\ UNCHANGED step_vars
    /\ UNCHANGED <<page_num, text, source, target_tokens, overlap_tokens,
                   cleaned_text, segments, semantic_chunks>>

Next ==
    \/ PreprocessPage
    \/ ReturnEmptyPage
    \/ ReturnSingleChunk
    \/ SegmentPage
    \/ MergePage
    \/ OverlapPage

Spec == Init /\ [][Next]_vars

\* the records chunk_page_text returned
Records == returned[1]

(***************************************************************************)
(* SemanticSegmenter::segment called directly, as the segmenter's test     *)
(* calls it: on a text as given and a max_tokens of the caller's choice.   *)
(***************************************************************************)
SegmentInit ==
    /\ page_num \in Pages
    /\ text \in TextsOver(Chars, MaxLen) \cup TextsOver(LongChars, MaxLongLen)
    /\ source \in Sources
    /\ target_tokens \in 0..MaxSegmentTokens
    /\ overlap_tokens = 0
    /\ pc = "segment_call"
    /\ cleaned_text = <<>>
    /\ segments = <<>>
    /\ semantic_chunks = <<>>
    /\ returned = <<>>
    /\ error = "none"
    /\ other_text = <<>>
    /\ encoded = <<>>
    /\ decode_result = <<>>
    /\ StepVarsIdle

\* segmenter.segment(text, max_tokens, &tokenizer)
SegmentCall ==
    /\ pc = "segment_call"
    /\ segments' = Segment(text, target_tokens)
    /\ pc' = "segment_returned"
    /\ UNCHANGED tokenizer_vars
    /\ UNCHANGED step_vars
    /\ UNCHANGED <<error, page_num, text, source, target_tokens, overlap_tokens,
                   cleaned_text, semantic_chunks, returned>>

SegmentNext == SegmentCall

SegmentSpec == SegmentInit /\ [][SegmentNext]_vars

(***************************************************************************)
(* ChunkMerger::merge_segments called directly, as the merger's test calls *)
(* it: on a list of Segment values the caller built itself, whose text     *)
(* may be anything, the empty string included.                             *)
(***************************************************************************)
\* the texts of the segments a caller builds
DirectSegmentTexts ==
    {<<>>, <<"a">>, <<"a", "a">>, <<" ", "a">>, <<"1">>, <<"a", " ", "1">>}

\* Segment { text, start_offset, end_offset: start_offset + text.len(),
\* semantic_level: 3 }
DirectSegment(t, offset) ==
    [text |-> t, start_offset |-> offset, end_offset |-> offset + Len(t),
     semantic_level |-> 3]

\* the segments of the texts laid out as the merger's test lays them out:
\* the first at 0, each next one past the end of the one before
RECURSIVE DirectSegments(_, _)
DirectSegments(texts, offset) ==
    IF texts = <<>> THEN <<>>
    ELSE <<DirectSegment(Head(texts), offset)>>
         \o DirectSegments(Tail(texts), offset + Len(Head(texts)) + 1)

\* the segment lists a caller passes
DirectSegmentLists ==
    {DirectSegments(texts, 0) :
        texts \in UNION {[1..n -> DirectSegmentTexts] : n \in 0..MaxSegments}}

MergeInit ==
    /\ page_num \in Pages
    /\ text = <<>>
    /\ source \in Sources
    /\ target_tokens \in 0..MaxTarget
    /\ overlap_tokens = 0
    /\ pc = "merge_call"
    /\ cleaned_text = <<>>
    /\ segments \in DirectSegmentLists
    /\ semantic_chunks = <<>>
    /\ returned = <<>>
    /\ error = "none"
    /\ other_text = <<>>
    /\ encoded = <<>>
    /\ decode_result = <<>>
    /\ StepVarsIdle

\* merger.merge_segments(segments)
MergeCall ==
    /\ pc = "merge_call"
    /\ semantic_chunks' = MergeSegments(segments, target_tokens)
    /\ pc' = "merge_returned"
    /\ UNCHANGED tokenizer_vars
    /\ UNCHANGED step_vars
    /\ UNCHANGED <<error, page_num, text, source, target_tokens, overlap_tokens,
                   cleaned_text, segments, returned>>

MergeNext == MergeCall

MergeSpec == MergeInit /\ [][MergeNext]_vars
(***************************************************************************)
(* SemanticSegmenter::segment run one call of recursive_split at a time.   *)
(* recursive_split calls itself once, as its last statement but one, and   *)
(* appends what the call returns to its own result: the result vectors of  *)
(* the calls on the stack are kept joined, outermost first.                *)
(***************************************************************************)
\* a SemanticSegmenter after new(), segment() not yet called
RecursiveSplitInit ==
    /\ page_num \in Pages
    /\ text = <<>>
    /\ source \in Sources
    /\ target_tokens = 0
    /\ overlap_tokens = 0
    /\ pc = "segment_call"
    /\ cleaned_text = <<>>
    /\ segments = <<>>
    /\ semantic_chunks = <<>>
    /\ returned = <<>>
    /\ error = "none"
    /\ other_text = <<>>
    /\ encoded = <<>>
    /\ decode_result = <<>>
    /\ StepVarsIdle

\* segment(text, max_tokens, tokenizer) is called: it builds
\* initial_segment and calls
\* recursive_split(vec![initial_segment], max_tokens, tokenizer, 0)
SegmentEntry ==
    /\ pc = "segment_call"
    /\ \E t \in TextsOver(Chars, MaxLen) \cup TextsOver(LongChars, MaxLongLen),
          max_tokens \in 0..MaxSegmentTokens :
          /\ text' = t
          /\ target_tokens' = max_tokens
          /\ needs_further_splitting' =
                 <<[text |-> t, start_offset |-> 0, end_offset |-> Len(t),
                    semantic_level |-> 0]>>
    /\ separator_level' = 0
    /\ result' = <<>>
    /\ pc' = "recursive_split"
    /\ UNCHANGED tokenizer_vars
    /\ UNCHANGED <<bpe_vars, special_vars, worker_vars, simple_vars>>
    /\ UNCHANGED <<error, page_num, source, overlap_tokens, cleaned_text,
                   segments, semantic_chunks, returned>>

\* if separator_level >= self.separators.len() { return segments; }
RecursiveSplitBase ==
    /\ pc = "recursive_split"
    /\ separator_level >= Len(Separators)
    /\ segments' = result \o needs_further_splitting
    /\ pc' = "segment_returned"
    /\ UNCHANGED segmenter_vars
    /\ UNCHANGED tokenizer_vars
    /\ UNCHANGED <<bpe_vars, special_vars, worker_vars, simple_vars>>
    /\ UNCHANGED <<error, page_num, text, source, target_tokens, overlap_tokens,
                   cleaned_text, semantic_chunks, returned>>

\* the for loop of recursive_split over its argument segments: what fits
\* goes to result, the rest, split or not, to needs_further_splitting
RecursiveSplitLoop ==
    /\ pc = "recursive_split"
    /\ separator_level < Len(Separators)
    /\ LET pass == SplitPass(needs_further_splitting, target_tokens,
                             separator_level)
       IN  /\ result' = result \o pass[1]
           /\ needs_further_splitting' = pass[2]
    /\ pc' = "after_loop"
    /\ UNCHANGED tokenizer_vars
    /\ UNCHANGED <<bpe_vars, special_vars, worker_vars, simple_vars>>
    /\ UNCHANGED <<error, page_num, text, source, target_tokens, overlap_tokens,
                   cleaned_text, segments, semantic_chunks, returned,
                   separator_level>>

\* RecursiveSplitRecurse calling itself with the separator_level it was
\* given
RecursiveSplitRecurseSameLevel ==
    /\ pc = "after_loop"
    /\ needs_further_splitting # <<>>
    /\ separator_level' = separator_level
    /\ pc' = "recursive_split"
    /\ UNCHANGED tokenizer_vars
    /\ UNCHANGED <<bpe_vars, special_vars, worker_vars, simple_vars>>
    /\ UNCHANGED <<error, page_num, text, source, target_tokens, overlap_tokens,
                   cleaned_text, segments, semantic_chunks, returned,
                   needs_further_splitting, result>>

\* if !needs_further_splitting.is_empty(): the call
\* self.recursive_split(needs_further_splitting, .., separator_level + 1)
RecursiveSplitRecurse ==
    /\ pc = "after_loop"
    /\ needs_further_splitting # <<>>
    /\ separator_level' = separator_level + 1
    /\ pc' = "recursive_split"
    /\ UNCHANGED tokenizer_vars
    /\ UNCHANGED <<bpe_vars, special_vars, worker_vars, simple_vars>>
    /\ UNCHANGED <<error, page_num, text, source, target_tokens, overlap_tokens,
                   cleaned_text, segments, semantic_chunks, returned,
                   needs_further_splitting, result>>

\* needs_further_splitting is empty: result is returned, and every caller
\* returns its own result extended by it
RecursiveSplitReturn ==
    /\ pc = "after_loop"
    /\ needs_further_splitting = <<>>
    /\ segments' = result
    /\ pc' = "segment_returned"
    /\ UNCHANGED segmenter_vars
    /\ UNCHANGED tokenizer_vars
    /\ UNCHANGED <<bpe_vars, special_vars, worker_vars, simple_vars>>
    /\ UNCHANGED <<error, page_num, text, source, target_tokens, overlap_tokens,
                   cleaned_text, semantic_chunks, returned>>

RecursiveSplitNext ==
    \/ SegmentEntry
    \/ RecursiveSplitBase
    \/ RecursiveSplitLoop
    \/ RecursiveSplitRecurse
    \/ RecursiveSplitReturn

\* a call that has started runs on: the routine is sequential code
RecursiveSplitSpec ==
    RecursiveSplitInit /\ [][RecursiveSplitNext]_vars /\ WF_vars(RecursiveSplitNext)

(***************************************************************************)
(* _byte_pair_merge run one pass of its while loop at a time.              *)
(***************************************************************************)
\* the bytes of the pieces handed to _byte_pair_merge
PieceBytes == {"a", " ", "\n", "1"}

\* byte_pair_encode is about to call _byte_pair_merge(ranks, piece)
BytePairMergeInit ==
    /\ page_num \in Pages
    /\ text = <<>>
    /\ source \in Sources
    /\ target_tokens = 0
    /\ overlap_tokens = 0
    /\ pc = "byte_pair_encode"
    /\ cleaned_text = <<>>
    /\ segments = <<>>
    /\ semantic_chunks = <<>>
    /\ returned = <<>>
    /\ error = "none"
    /\ other_text = <<>>
    /\ encoded = <<>>
    /\ decode_result = <<>>
    /\ separator_level = 0
    /\ needs_further_splitting = <<>>
    /\ result = <<>>
    /\ piece \in TextsOver(PieceBytes, MaxPieceLen) \ {<<>>}
    /\ parts = <<>>
    /\ merges = 0
    /\ allowed_special = {}
    /\ start = 0
    /\ start_find = 0
    /\ next_special = <<>>
    /\ ret = <<>>
    /\ threads = {}
    /\ regex_slot = <<>>
    /\ chunk_size = 0
    /\ overlap_size = 0
    /\ step_size = 0
    /\ tokens = <<>>
    /\ start_token_idx = 0
    /\ chunk_id = 0
    /\ chunks = <<>>

\* if piece.len() == 1 { return vec![ranks[piece]] }; the index expression
\* panics when the byte is no vocabulary entry
ReturnOneByte ==
    /\ pc = "byte_pair_encode"
    /\ Len(piece) = 1
    /\ IF RankOf(piece) = RankMax
       THEN /\ error' = "panic"
            /\ pc' = "panicked"
            /\ UNCHANGED ret
       ELSE /\ ret' = <<RankOf(piece)>>
            /\ pc' = "ranks_returned"
            /\ UNCHANGED error
    /\ UNCHANGED <<allowed_special, start, start_find, next_special>>
    /\ UNCHANGED <<segmenter_vars, bpe_vars, worker_vars, simple_vars>>
    /\ UNCHANGED tokenizer_vars
    /\ UNCHANGED <<page_num, text, source, target_tokens, overlap_tokens,
                   cleaned_text, segments, semantic_chunks, returned>>

\* _byte_pair_merge is called: the first loop and the two sentinels
BuildParts ==
    /\ pc = "byte_pair_encode"
    /\ Len(piece) # 1
    /\ parts' = InitialParts(piece)
    /\ pc' = "while"
    /\ UNCHANGED <<piece, merges>>
    /\ UNCHANGED <<segmenter_vars, special_vars, worker_vars, simple_vars>>
    /\ UNCHANGED tokenizer_vars
    /\ UNCHANGED <<page_num, text, source, target_tokens, overlap_tokens,
                   cleaned_text, segments, semantic_chunks, returned, error>>

\* while min_rank.0 != Rank::MAX: one pass of the body
MergeOnce ==
    /\ pc = "while"
    /\ LET min_rank == MinRank(parts, Len(parts) - 1)
       IN  /\ min_rank[1] # RankMax
           /\ parts' = MergeAt(piece, parts, min_rank[2])
    /\ merges' = merges + 1
    /\ UNCHANGED <<piece, pc>>
    /\ UNCHANGED <<segmenter_vars, special_vars, worker_vars, simple_vars>>
    /\ UNCHANGED tokenizer_vars
    /\ UNCHANGED <<page_num, text, source, target_tokens, overlap_tokens,
                   cleaned_text, segments, semantic_chunks, returned, error>>

\* min_rank.0 == Rank::MAX: the loop ends and parts is returned
ReturnParts ==
    /\ pc = "while"
    /\ MinRank(parts, Len(parts) - 1)[1] = RankMax
    /\ pc' = "parts_returned"
    /\ UNCHANGED bpe_vars
    /\ UNCHANGED <<segmenter_vars, special_vars, worker_vars, simple_vars>>
    /\ UNCHANGED tokenizer_vars
    /\ UNCHANGED <<page_num, text, source, target_tokens, overlap_tokens,
                   cleaned_text, segments, semantic_chunks, returned, error>>

\* the ranks of the spans are collected; an index expression that finds no
\* entry panics
EmitRanks ==
    /\ pc = "parts_returned"
    /\ LET ranks == PartRanks(piece, parts)
       IN  IF \E k \in DOMAIN ranks : ranks[k] = RankMax
           THEN /\ error' = "panic"
                /\ pc' = "panicked"
                /\ UNCHANGED ret
           ELSE /\ ret' = ranks
                /\ pc' = "ranks_returned"
                /\ UNCHANGED error
    /\ UNCHANGED <<allowed_special, start, start_find, next_special>>
    /\ UNCHANGED <<segmenter_vars, bpe_vars, worker_vars, simple_vars>>
    /\ UNCHANGED tokenizer_vars
    /\ UNCHANGED <<page_num, text, source, target_tokens, overlap_tokens,
                   cleaned_text, segments, semantic_chunks, returned>>

BytePairMergeNext ==
    ReturnOneByte \/ BuildParts \/ MergeOnce \/ ReturnParts \/ EmitRanks

BytePairMergeSpec == BytePairMergeInit /\ [][BytePairMergeNext]_vars

(***************************************************************************)
(* CoreBPE::encode run one search and one stretch of text at a time.       *)
(***************************************************************************)
\* what the texts handed to encode are put together from
EncodeBlocks == {<<"a">>, <<" ">>, <<"<", "|">>, EndOfText, ImEnd}

\* the allow-lists drawn
AllowLists == SUBSET {EndOfText, ImEnd}

\* encode(text, allowed_special) is entered: ret = vec![], start = 0
EncodeInit ==
    /\ page_num \in Pages
    /\ text \in {Utf8Bytes(bs) : bs \in TextsOver(EncodeBlocks, MaxBlocks)}
    /\ source \in Sources
    /\ target_tokens = 0
    /\ overlap_tokens = 0
    /\ pc = "loop"
    /\ cleaned_text = <<>>
    /\ segments = <<>>
    /\ semantic_chunks = <<>>
    /\ returned = <<>>
    /\ error = "none"
    /\ other_text = <<>>
    /\ encoded = <<>>
    /\ decode_result = <<>>
    /\ separator_level = 0
    /\ needs_further_splitting = <<>>
    /\ result = <<>>
    /\ piece = <<>>
    /\ parts = <<>>
    /\ merges = 0
    /\ allowed_special \in AllowLists
    /\ start = 0
    /\ start_find = 0
    /\ next_special = <<>>
    /\ ret = <<>>
    /\ threads = {}
    /\ regex_slot = <<>>
    /\ chunk_size = 0
    /\ overlap_size = 0
    /\ step_size = 0
    /\ tokens = <<>>
    /\ start_token_idx = 0
    /\ chunk_id = 0
    /\ chunks = <<>>

\* the outer loop is entered: let mut start_find = start
BeginSearch ==
    /\ pc = "loop"
    /\ start_find' = start
    /\ pc' = "find"
    /\ UNCHANGED <<allowed_special, start, next_special, ret>>
    /\ UNCHANGED <<segmenter_vars, bpe_vars, worker_vars, simple_vars>>
    /\ UNCHANGED tokenizer_vars
    /\ UNCHANGED <<page_num, text, source, target_tokens, overlap_tokens,
                   cleaned_text, segments, semantic_chunks, returned, error>>

\* the inner loop finds a label that is not allowed: start_find = m.start() + 1
FindDisallowed ==
    /\ pc = "find"
    /\ LET m == FindFromPos(text, start_find)
       IN  /\ m # <<>>
           /\ ~IsAllowed(allowed_special, text, m)
           /\ next_special' = m
           /\ start_find' = m[1] + 1
    /\ UNCHANGED <<allowed_special, start, ret, pc>>
    /\ UNCHANGED <<segmenter_vars, bpe_vars, worker_vars, simple_vars>>
    /\ UNCHANGED tokenizer_vars
    /\ UNCHANGED <<page_num, text, source, target_tokens, overlap_tokens,
                   cleaned_text, segments, semantic_chunks, returned, error>>

\* the inner loop breaks, on an allowed label or on None
FindBreaks ==
    /\ pc = "find"
    /\ LET m == FindFromPos(text, start_find)
       IN  /\ m # <<>> => IsAllowed(allowed_special, text, m)
           /\ next_special' = m
    /\ pc' = "ordinary"
    /\ UNCHANGED <<allowed_special, start, start_find, ret>>
    /\ UNCHANGED <<segmenter_vars, bpe_vars, worker_vars, simple_vars>>
    /\ UNCHANGED tokenizer_vars
    /\ UNCHANGED <<page_num, text, source, target_tokens, overlap_tokens,
                   cleaned_text, segments, semantic_chunks, returned, error>>

\* the for loop over regex.find_iter(&text[start..end])
EncodeStretch ==
    /\ pc = "ordinary"
    /\ LET end == IF next_special = <<>> THEN Len(text) ELSE next_special[1]
       IN  ret' = ret \o EncodePieces(Pieces(Slice(text, start, end), 1))
    /\ pc' = "special"
    /\ UNCHANGED <<allowed_special, start, start_find, next_special>>
    /\ UNCHANGED <<segmenter_vars, bpe_vars, worker_vars, simple_vars>>
    /\ UNCHANGED tokenizer_vars
    /\ UNCHANGED <<page_num, text, source, target_tokens, overlap_tokens,
                   cleaned_text, segments, semantic_chunks, returned, error>>

\* PushSpecial leaving start where the label starts
PushSpecialStaysPut ==
    /\ pc = "special"
    /\ next_special # <<>>
    /\ ret' = Append(ret, SpecialTokensEncoder[Slice(text, next_special[1],
                                                     next_special[2])])
    /\ start' = next_special[1]
    /\ pc' = "loop"
    /\ UNCHANGED <<allowed_special, start_find, next_special>>
    /\ UNCHANGED <<segmenter_vars, bpe_vars, worker_vars, simple_vars>>
    /\ UNCHANGED tokenizer_vars
    /\ UNCHANGED <<page_num, text, source, target_tokens, overlap_tokens,
                   cleaned_text, segments, semantic_chunks, returned, error>>

\* Some(m): ret.push(special_tokens_encoder[piece]); start = m.end()
PushSpecial ==
    /\ pc = "special"
    /\ next_special # <<>>
    /\ ret' = Append(ret, SpecialTokensEncoder[Slice(text, next_special[1],
                                                     next_special[2])])
    /\ start' = next_special[2]
    /\ pc' = "loop"
    /\ UNCHANGED <<allowed_special, start_find, next_special>>
    /\ UNCHANGED <<segmenter_vars, bpe_vars, worker_vars, simple_vars>>
    /\ UNCHANGED tokenizer_vars
    /\ UNCHANGED <<page_num, text, source, target_tokens, overlap_tokens,
                   cleaned_text, segments, semantic_chunks, returned, error>>

\* None => break; Ok(ret)
EncodeReturns ==
    /\ pc = "special"
    /\ next_special = <<>>
    /\ pc' = "encode_returned"
    /\ UNCHANGED special_vars
    /\ UNCHANGED <<segmenter_vars, bpe_vars, worker_vars, simple_vars>>
    /\ UNCHANGED tokenizer_vars
    /\ UNCHANGED <<page_num, text, source, target_tokens, overlap_tokens,
                   cleaned_text, segments, semantic_chunks, returned, error>>

EncodeNext ==
    \/ BeginSearch
    \/ FindDisallowed
    \/ FindBreaks
    \/ EncodeStretch
    \/ PushSpecial
    \/ EncodeReturns

\* the loops of encode run in the calling thread with nothing to wait for
EncodeSpec == EncodeInit /\ [][EncodeNext]_vars /\ WF_vars(EncodeNext)

(***************************************************************************)
(* The tokenizer is constructed and decode is called on it.                *)
(***************************************************************************)
\* the ranks the token lists handed to decode are drawn from: the special
\* ranks, some ranks of the vocabulary and one rank of neither
DecodeRanks ==
    DOMAIN SpecialTokensDecoder
        \cup {Encoder[<<"a">>], Encoder[<<" ">>], Encoder[<<"a", "a">>],
              Encoder[<<Utf8Lead>>], RankMax}

\* new_o200k_base has loaded the two tables and calls new_internal
DecodeInit ==
    /\ page_num \in Pages
    /\ text = <<>>
    /\ source \in Sources
    /\ target_tokens = 0
    /\ overlap_tokens = 0
    /\ pc = "new_internal"
    /\ cleaned_text = <<>>
    /\ segments = <<>>
    /\ semantic_chunks = <<>>
    /\ returned = <<>>
    /\ error = "none"
    /\ other_text = <<>>
    /\ encoded = <<>>
    /\ decode_result = <<>>
    /\ StepVarsIdle

\* new_internal: the only check on the tables is encoder.len() != decoder.len()
NewInternal ==
    /\ pc = "new_internal"
    /\ IF Cardinality(DOMAIN Encoder) # Cardinality(DOMAIN Decoder)
       THEN /\ error' = "SystemError"
            /\ pc' = "failed"
       ELSE /\ pc' = "constructed"
            /\ UNCHANGED error
    /\ UNCHANGED step_vars
    /\ UNCHANGED tokenizer_vars
    /\ UNCHANGED <<page_num, text, source, target_tokens, overlap_tokens,
                   cleaned_text, segments, semantic_chunks, returned>>

\* decode(tokens) on the constructed tokenizer
DecodeCall ==
    /\ pc = "constructed"
    /\ \E ts \in TextsOver(DecodeRanks, MaxDecodeLen) :
          /\ tokens' = ts
          /\ decode_result' = Decode(ts)
    /\ pc' = "decoded"
    /\ UNCHANGED <<chunk_size, overlap_size, step_size, start_token_idx,
                   chunk_id, chunks>>
    /\ UNCHANGED <<segmenter_vars, bpe_vars, special_vars, worker_vars>>
    /\ UNCHANGED <<page_num, text, source, target_tokens, overlap_tokens,
                   cleaned_text, segments, semantic_chunks, returned, error,
                   other_text, encoded>>

DecodeNext == NewInternal \/ DecodeCall

DecodeSpec == DecodeInit /\ [][DecodeNext]_vars

(***************************************************************************)
(* Worker threads encoding on one shared tokenizer (tiktoken_core.rs).     *)
(* threads is the set of the running workers' thread identities,           *)
(* regex_slot the index into regex_tls of every worker inside an encode.   *)
(***************************************************************************)
MAX_NUM_THREADS == 128

\* the thread identities drawn: the standard library numbers the threads of
\* a process from 1 and never gives a number twice, so a process that has
\* started more than MAX_NUM_THREADS threads has identities above it
ThreadIds ==
    (1..MaxWorkers) \cup {MAX_NUM_THREADS + k : k \in 1..MaxWorkers}

\* HashCurrentThread dropping the lowest bit of the identity
HashCurrentThreadHalved(t) == t \div 2

\* hash_current_thread: the ThreadId read as its u64
HashCurrentThread(t) == t

\* the tokenizer is constructed and no worker runs
WorkerInit ==
    /\ page_num \in Pages
    /\ text = <<>>
    /\ source \in Sources
    /\ target_tokens = 0
    /\ overlap_tokens = 0
    /\ pc = "shared"
    /\ cleaned_text = <<>>
    /\ segments = <<>>
    /\ semantic_chunks = <<>>
    /\ returned = <<>>
    /\ error = "none"
    /\ other_text = <<>>
    /\ encoded = <<>>
    /\ decode_result = <<>>
    /\ StepVarsIdle

\* a worker thread starts
WorkerStarts ==
    /\ \E t \in ThreadIds \ threads : threads' = threads \cup {t}
    /\ UNCHANGED regex_slot
    /\ UNCHANGED <<segmenter_vars, bpe_vars, special_vars, simple_vars>>
    /\ UNCHANGED tokenizer_vars
    /\ UNCHANGED <<page_num, text, source, target_tokens, overlap_tokens, pc,
                   cleaned_text, segments, semantic_chunks, returned, error>>

\* a worker enters encode_ordinary: &self.regex_tls[hash_current_thread() % MAX_NUM_THREADS]
GetTlRegex ==
    /\ \E t \in threads \ DOMAIN regex_slot :
          regex_slot' = regex_slot @@ (t :> HashCurrentThread(t) % MAX_NUM_THREADS)
    /\ UNCHANGED threads
    /\ UNCHANGED <<segmenter_vars, bpe_vars, special_vars, simple_vars>>
    /\ UNCHANGED tokenizer_vars
    /\ UNCHANGED <<page_num, text, source, target_tokens, overlap_tokens, pc,
                   cleaned_text, segments, semantic_chunks, returned, error>>

\* a worker's encode_ordinary returns and its borrow of the replica ends
EncodeOrdinaryReturns ==
    /\ \E t \in DOMAIN regex_slot :
          regex_slot' = [u \in DOMAIN regex_slot \ {t} |-> regex_slot[u]]
    /\ UNCHANGED threads
    /\ UNCHANGED <<segmenter_vars, bpe_vars, special_vars, simple_vars>>
    /\ UNCHANGED tokenizer_vars
    /\ UNCHANGED <<page_num, text, source, target_tokens, overlap_tokens, pc,
                   cleaned_text, segments, semantic_chunks, returned, error>>

\* a worker thread that is not encoding ends
WorkerEnds ==
    /\ \E t \in threads \ DOMAIN regex_slot : threads' = threads \ {t}
    /\ UNCHANGED regex_slot
    /\ UNCHANGED <<segmenter_vars, bpe_vars, special_vars, simple_vars>>
    /\ UNCHANGED tokenizer_vars
    /\ UNCHANGED <<page_num, text, source, target_tokens, overlap_tokens, pc,
                   cleaned_text, segments, semantic_chunks, returned, error>>

WorkerNext ==
    WorkerStarts \/ GetTlRegex \/ EncodeOrdinaryReturns \/ WorkerEnds

WorkerSpec == WorkerInit /\ [][WorkerNext]_vars

(***************************************************************************)
(* TextChunker with the SimpleToken strategy (chunking.rs): the sliding    *)
(* window over the tokens of the raw page text, one pass of the while      *)
(* loop at a time.                                                         *)
(***************************************************************************)
\* the bound of the safety check `if chunk_id > 1000`
ChunkIdLimit == 1000

\* the characters, as byte strings, the pages are drawn from
SimpleChars == {<<"a">>, <<" ">>, WideChar}

\* usize::saturating_sub
SaturatingSub(a, b) == IF a > b THEN a - b ELSE 0

\* &tokens[start_token_idx..end_token_idx]
ChunkTokens(toks, from, to) == SubSeq(toks, from + 1, to)

\* TextChunker::new(chunk_size, overlap_size).with_strategy(SimpleToken) is
\* constructed and chunk_page_text(page_num, text, source) is called
SimpleInit ==
    /\ page_num \in Pages
    /\ text \in {Utf8Bytes(cs) : cs \in TextsOver(SimpleChars, MaxSimpleLen)}
    /\ source \in Sources
    /\ target_tokens = 0
    /\ overlap_tokens = 0
    /\ pc = "simple_call"
    /\ cleaned_text = <<>>
    /\ segments = <<>>
    /\ semantic_chunks = <<>>
    /\ returned = <<>>
    /\ error = "none"
    /\ other_text = <<>>
    /\ encoded = <<>>
    /\ decode_result = <<>>
    /\ separator_level = 0
    /\ needs_further_splitting = <<>>
    /\ result = <<>>
    /\ piece = <<>>
    /\ parts = <<>>
    /\ merges = 0
    /\ allowed_special = {}
    /\ start = 0
    /\ start_find = 0
    /\ next_special = <<>>
    /\ ret = <<>>
    /\ threads = {}
    /\ regex_slot = <<>>
    /\ chunk_size \in 0..MaxChunkSize
    /\ overlap_size \in 0..MaxOverlapSize
    /\ step_size = SaturatingSub(chunk_size, overlap_size)
    /\ tokens = <<>>
    /\ start_token_idx = 0
    /\ chunk_id = 0
    /\ chunks = <<>>

\* Case 1: token_count <= self.chunk_size, the single record of the raw text
SinglePage ==
    /\ pc = "simple_call"
    /\ tokens' = EncodeOrdinary(text)
    /\ Len(tokens') <= chunk_size
    /\ returned' = <<MakeRecord(page_num, 0, text, source, Len(tokens'))>>
    /\ pc' = "simple_returned"
    /\ UNCHANGED <<chunk_size, overlap_size, step_size, start_token_idx,
                   chunk_id, chunks>>
    /\ UNCHANGED <<segmenter_vars, bpe_vars, special_vars, worker_vars>>
    /\ UNCHANGED tokenizer_vars
    /\ UNCHANGED <<page_num, text, source, target_tokens, overlap_tokens,
                   cleaned_text, segments, semantic_chunks, error>>

\* Case 2: chunks = Vec::new(), chunk_id = 0, start_token_idx = 0
BeginWindows ==
    /\ pc = "simple_call"
    /\ tokens' = EncodeOrdinary(text)
    /\ Len(tokens') > chunk_size
    /\ chunks' = <<>>
    /\ chunk_id' = 0
    /\ start_token_idx' = 0
    /\ pc' = "while"
    /\ UNCHANGED <<chunk_size, overlap_size, step_size>>
    /\ UNCHANGED <<segmenter_vars, bpe_vars, special_vars, worker_vars>>
    /\ UNCHANGED tokenizer_vars
    /\ UNCHANGED <<page_num, text, source, target_tokens, overlap_tokens,
                   cleaned_text, segments, semantic_chunks, returned, error>>

\* std::cmp::min(start_token_idx + self.chunk_size, token_count)
EndTokenIdx == Min({start_token_idx + chunk_size, Len(tokens)})

\* the record pushed for the window at start_token_idx
WindowRecord ==
    LET chunk_tokens == ChunkTokens(tokens, start_token_idx, EndTokenIdx)
    IN  MakeRecord(page_num, chunk_id, Decode(chunk_tokens).value, source,
                   Len(chunk_tokens))

\* a pass of the loop whose decode fails: Err(ChunkingError)
WindowUndecodable ==
    /\ pc = "while"
    /\ start_token_idx < Len(tokens)
    /\ ~Decode(ChunkTokens(tokens, start_token_idx, EndTokenIdx)).ok
    /\ error' = "ChunkingError"
    /\ pc' = "simple_failed"
    /\ UNCHANGED simple_vars
    /\ UNCHANGED <<segmenter_vars, bpe_vars, special_vars, worker_vars>>
    /\ UNCHANGED tokenizer_vars
    /\ UNCHANGED <<page_num, text, source, target_tokens, overlap_tokens,
                   cleaned_text, segments, semantic_chunks, returned>>

\* a pass of the loop that reaches the end: push, break, Ok(chunks)
LastWindow ==
    /\ pc = "while"
    /\ start_token_idx < Len(tokens)
    /\ Decode(ChunkTokens(tokens, start_token_idx, EndTokenIdx)).ok
    /\ EndTokenIdx >= Len(tokens)
    /\ chunks' = Append(chunks, WindowRecord)
    /\ returned' = chunks'
    /\ pc' = "simple_returned"
    /\ UNCHANGED <<chunk_size, overlap_size, step_size, tokens,
                   start_token_idx, chunk_id>>
    /\ UNCHANGED <<segmenter_vars, bpe_vars, special_vars, worker_vars>>
    /\ UNCHANGED tokenizer_vars
    /\ UNCHANGED <<page_num, text, source, target_tokens, overlap_tokens,
                   cleaned_text, segments, semantic_chunks, error>>

\* NextWindow with chunk_id left as it is
NextWindowKeepsChunkId ==
    /\ pc = "while"
    /\ start_token_idx < Len(tokens)
    /\ Decode(ChunkTokens(tokens, start_token_idx, EndTokenIdx)).ok
    /\ EndTokenIdx < Len(tokens)
    /\ chunk_id <= ChunkIdLimit
    /\ chunks' = Append(chunks, WindowRecord)
    /\ start_token_idx' = start_token_idx + step_size
    /\ UNCHANGED <<chunk_size, overlap_size, step_size, tokens, chunk_id>>
    /\ UNCHANGED <<segmenter_vars, bpe_vars, special_vars, worker_vars>>
    /\ UNCHANGED tokenizer_vars
    /\ UNCHANGED <<page_num, text, source, target_tokens, overlap_tokens, pc,
                   cleaned_text, segments, semantic_chunks, returned, error>>

\* a pass of the loop that goes on: push, start_token_idx += step_size,
\* chunk_id += 1, and the safety check passes
NextWindow ==
    /\ pc = "while"
    /\ start_token_idx < Len(tokens)
    /\ Decode(ChunkTokens(tokens, start_token_idx, EndTokenIdx)).ok
    /\ EndTokenIdx < Len(tokens)
    /\ chunk_id + 1 <= ChunkIdLimit
    /\ chunks' = Append(chunks, WindowRecord)
    /\ start_token_idx' = start_token_idx + step_size
    /\ chunk_id' = chunk_id + 1
    /\ UNCHANGED <<chunk_size, overlap_size, step_size, tokens>>
    /\ UNCHANGED <<segmenter_vars, bpe_vars, special_vars, worker_vars>>
    /\ UNCHANGED tokenizer_vars
    /\ UNCHANGED <<page_num, text, source, target_tokens, overlap_tokens, pc,
                   cleaned_text, segments, semantic_chunks, returned, error>>

\* a pass of the loop after which chunk_id > 1000: Err(ChunkingError)
TooManyChunks ==
    /\ pc = "while"
    /\ start_token_idx < Len(tokens)
    /\ Decode(ChunkTokens(tokens, start_token_idx, EndTokenIdx)).ok
    /\ EndTokenIdx < Len(tokens)
    /\ chunk_id + 1 > ChunkIdLimit
    /\ chunks' = Append(chunks, WindowRecord)
    /\ start_token_idx' = start_token_idx + step_size
    /\ chunk_id' = chunk_id + 1
    /\ error' = "ChunkingError"
    /\ pc' = "simple_failed"
    /\ UNCHANGED <<chunk_size, overlap_size, step_size, tokens>>
    /\ UNCHANGED <<segmenter_vars, bpe_vars, special_vars, worker_vars>>
    /\ UNCHANGED tokenizer_vars
    /\ UNCHANGED <<page_num, text, source, target_tokens, overlap_tokens,
                   cleaned_text, segments, semantic_chunks, returned>>

SimpleNext ==
    \/ SinglePage
    \/ BeginWindows
    \/ WindowUndecodable
    \/ LastWindow
    \/ NextWindow
    \/ TooManyChunks

\* the call runs in the calling thread with nothing to wait for
SimpleSpec == SimpleInit /\ [][SimpleNext]_vars /\ WF_vars(SimpleNext)

(***************************************************************************)
(* Helpers of the properties.                                              *)
(***************************************************************************)
\* the call has returned
Done == pc = "done"

\* the call went through segment, merge and overlap
WentThroughMerge == Done /\ semantic_chunks # <<>>

\* the earliest position >= from at which sub occurs in s, 0 when none
RECURSIVE FindFrom(_, _, _)
FindFrom(s, sub, from) ==
    IF from + Len(sub) - 1 > Len(s) THEN 0
    ELSE IF SubSeq(s, from, from + Len(sub) - 1) = sub THEN from
    ELSE FindFrom(s, sub, from + 1)

\* the texts occur in s from position `from` on, one after the other
\* without overlap, in list order
RECURSIVE OccurInOrder(_, _, _)
OccurInOrder(texts, s, from) ==
    IF texts = <<>> THEN TRUE
    ELSE LET p == FindFrom(s, Head(texts), from)
         IN  p > 0 /\ OccurInOrder(Tail(texts), s, p + Len(Head(texts)))

\* the texts of the segments that make up merged[1..n], in record order
RECURSIVE MemberTexts(_, _, _)
MemberTexts(merged, segs, n) ==
    IF n = 0 THEN <<>>
    ELSE MemberTexts(merged, segs, n - 1) \o
         [k \in 1..Len(merged[n].segments) |-> segs[merged[n].segments[k] + 1].text]

\* the last word of s: its longest suffix free of whitespace
RECURSIVE LastWord(_)
LastWord(s) ==
    IF s = <<>> \/ s[Len(s)] \in WhiteSpace THEN <<>>
    ELSE LastWord(SubSeq(s, 1, Len(s) - 1)) \o <<s[Len(s)]>>

\* s ends with suffix
EndsWith(s, suffix) ==
    Len(suffix) <= Len(s)
    /\ SubSeq(s, Len(s) - Len(suffix) + 1, Len(s)) = suffix

(***************************************************************************)
(* C1.  The records of a segmented page are in document order: the         *)
(* segments that make up the records, read in record order, occur in the   *)
(* preprocessed text one after the other, and the last record ends with    *)
(* the last word of the input.                                             *)
(***************************************************************************)
C1_DocumentOrder ==
    WentThroughMerge =>
        /\ OccurInOrder(MemberTexts(semantic_chunks, segments,
                                    Len(semantic_chunks)), cleaned_text, 1)
        /\ EndsWith(Records[Len(Records)].text, LastWord(cleaned_text))

(***************************************************************************)
(* CoreBPE::encode_ordinary and CoreBPE::decode called directly, as the    *)
(* tokenizer's tests call them: on strings of the caller's choice.         *)
(***************************************************************************)
\* the characters, as byte strings, the strings are drawn from
TokenChars == WideChars \cup {<<"1">>, <<".">>}
OtherChars == {<<"a">>, <<" ">>, WideChar}

TokenizerInit ==
    /\ page_num \in Pages
    /\ text \in {Utf8Bytes(cs) : cs \in TextsOver(TokenChars, MaxTokenLen)}
    /\ other_text \in {Utf8Bytes(cs) : cs \in TextsOver(OtherChars, MaxOtherLen)}
    /\ source \in Sources
    /\ target_tokens = 0
    /\ overlap_tokens = 0
    /\ pc = "encode_call"
    /\ cleaned_text = <<>>
    /\ segments = <<>>
    /\ semantic_chunks = <<>>
    /\ returned = <<>>
    /\ error = "none"
    /\ encoded = <<>>
    /\ decode_result = <<>>
    /\ StepVarsIdle

\* tokenizer.encode_ordinary on text, on other_text and on the two joined
EncodeTexts ==
    /\ pc = "encode_call"
    /\ encoded' = <<EncodeOrdinary(text), EncodeOrdinary(other_text),
                   EncodeOrdinary(text \o other_text)>>
    /\ pc' = "encoded"
    /\ UNCHANGED step_vars
    /\ UNCHANGED <<page_num, text, source, target_tokens, overlap_tokens,
                   cleaned_text, segments, semantic_chunks, returned, error,
                   other_text, decode_result>>

\* tokenizer.decode on the tokens of text
DecodeTokens ==
    /\ pc = "encoded"
    /\ decode_result' = Decode(encoded[1])
    /\ pc' = "decoded"
    /\ UNCHANGED step_vars
    /\ UNCHANGED <<page_num, text, source, target_tokens, overlap_tokens,
                   cleaned_text, segments, semantic_chunks, returned, error,
                   other_text, encoded>>

TokenizerNext == EncodeTexts \/ DecodeTokens

TokenizerSpec == TokenizerInit /\ [][TokenizerNext]_vars

(***************************************************************************)
(* TextPreprocessor::preprocess called directly, as the preprocessor's     *)
(* tests call it, and then called again on what it returned.               *)
(***************************************************************************)
\* the characters the strings are drawn from
PreprocessChars == {"a", " ", "\t", "\n", "\r", "\f"}

PreprocessInit ==
    /\ page_num \in Pages
    /\ text \in TextsOver(PreprocessChars, MaxPreLen)
    /\ source \in Sources
    /\ target_tokens = 0
    /\ overlap_tokens = 0
    /\ pc = "preprocess_call"
    /\ cleaned_text = <<>>
    /\ segments = <<>>
    /\ semantic_chunks = <<>>
    /\ returned = <<>>
    /\ error = "none"
    /\ other_text = <<>>
    /\ encoded = <<>>
    /\ decode_result = <<>>
    /\ StepVarsIdle

\* let result = preprocessor.preprocess(input)
PreprocessText ==
    /\ pc = "preprocess_call"
    /\ cleaned_text' = Preprocess(text)
    /\ pc' = "preprocessed_once"
    /\ UNCHANGED tokenizer_vars
    /\ UNCHANGED step_vars
    /\ UNCHANGED <<error, page_num, text, source, target_tokens, overlap_tokens,
                   segments, semantic_chunks, returned>>

\* preprocessor.preprocess(&result), its result kept in other_text
PreprocessAgain ==
    /\ pc = "preprocessed_once"
    /\ other_text' = Preprocess(cleaned_text)
    /\ pc' = "preprocessed_twice"
    /\ UNCHANGED step_vars
    /\ UNCHANGED <<page_num, text, source, target_tokens, overlap_tokens,
                   cleaned_text, segments, semantic_chunks, returned, error,
                   encoded, decode_result>>

PreprocessNext == PreprocessText \/ PreprocessAgain

PreprocessSpec == PreprocessInit /\ [][PreprocessNext]_vars

\* no segment of the list has an empty text
SegmentsHaveText == \A i \in 1..Len(segments) : segments[i].text # <<>>

C3_SingleChunkWhenPageFits ==
    (Done /\ Preprocess(text) # <<>>
          /\ Len(EncodeOrdinary(Preprocess(text))) <= target_tokens) =>
        Records = <<[page |-> page_num, chunk_id |-> 0,
                     text |-> Preprocess(text), source |-> source,
                     token_count |-> Len(EncodeOrdinary(Preprocess(text)))]>>

\* a page that preprocessing changed has been returned as a single chunk
C3_Witness ==
    /\ Done
    /\ Len(Records) = 1
    /\ Records[1].text # text
    /\ Records[1].token_count = 2
    /\ semantic_chunks = <<>>

(***************************************************************************)
(* C4.  The records returned carry chunk_id 0, 1, ..., k-1 in list order,  *)
(* and a page that was merged returns one record per merged chunk.         *)
(***************************************************************************)
C4_DenseChunkIds ==
    Done =>
        /\ \A k \in 1..Len(Records) : Records[k].chunk_id = k - 1
        /\ semantic_chunks # <<>> => Len(Records) = Len(semantic_chunks)

\* a page has been returned as three records
C4_Witness ==
    Done /\ Len(Records) >= 3 /\ Len(semantic_chunks) = Len(Records)

\* the last n of the ranks, all of them when there are fewer
LastTokens(ranks, n) ==
    IF Len(ranks) <= n THEN ranks
    ELSE [k \in 1..n |-> ranks[Len(ranks) - n + k]]

\* the text decoded from the last overlap_tokens tokens of the final text
\* of record k - 1
OverlapOfPrevious(k) ==
    DecodeBytes(LastTokens(EncodeOrdinary(Records[k - 1].text), overlap_tokens))

(***************************************************************************)
(* C5 as claimed.  With overlap_tokens > 0, record 0 is the first merged   *)
(* chunk verbatim and the text of every record k >= 1 is                   *)
(* trim(decode(T)) + " " + trim(merged chunk k), T the last overlap_tokens *)
(* tokens of the final text of record k - 1.                                *)
(***************************************************************************)
C5_OverlapAlwaysPrepended ==
    (WentThroughMerge /\ overlap_tokens > 0) =>
        /\ Records[1].text = semantic_chunks[1].text
        /\ \A k \in 2..Len(Records) :
               Records[k].text =
                   Trim(OverlapOfPrevious(k)) \o <<" ">>
                       \o Trim(semantic_chunks[k].text)

(***************************************************************************)
(* C5 as amended.  With overlap_tokens > 0, record 0 is the first merged   *)
(* chunk verbatim; for k >= 1, with T the last overlap_tokens tokens of     *)
(* the final text of record k - 1: when decode(T) is only whitespace the   *)
(* text of record k is merged chunk k verbatim, when merged chunk k is     *)
(* only whitespace it is decode(T), and otherwise it is                    *)
(* trim(decode(T)) + " " + trim(merged chunk k).                           *)
(***************************************************************************)
C5_OverlapPrependedUnlessBlank ==
    (WentThroughMerge /\ overlap_tokens > 0) =>
        /\ Records[1].text = semantic_chunks[1].text
        /\ \A k \in 2..Len(Records) :
               Records[k].text =
                   IF Trim(OverlapOfPrevious(k)) = <<>>
                   THEN semantic_chunks[k].text
                   ELSE IF Trim(semantic_chunks[k].text) = <<>>
                   THEN OverlapOfPrevious(k)
                   ELSE Trim(OverlapOfPrevious(k)) \o <<" ">>
                            \o Trim(semantic_chunks[k].text)

\* a third record has been built whose overlap comes from the final text
\* of the second and differs from what the second's merged chunk alone
\* would give
C5_Witness ==
    /\ WentThroughMerge
    /\ overlap_tokens > 0
    /\ Len(Records) >= 3
    /\ Trim(OverlapOfPrevious(3)) # <<>>
    /\ OverlapOfPrevious(3) #
           DecodeBytes(LastTokens(EncodeOrdinary(semantic_chunks[2].text),
                             overlap_tokens))

(***************************************************************************)
(* C6.  Every record k >= 1 whose merged chunk was within the budget has   *)
(* a final token_count of at most target_tokens + overlap_tokens.          *)
(***************************************************************************)
C6_OverlapAddsAtMostOverlapTokens ==
    WentThroughMerge =>
        \A k \in 2..Len(Records) :
            semantic_chunks[k].token_count <= target_tokens =>
                Records[k].token_count <= target_tokens + overlap_tokens

(***************************************************************************)
(* C7.  With overlap_tokens > 0 and two or more records, every record      *)
(* k >= 1 has a token_count no smaller than the token_count of its merged  *)
(* chunk.                                                                  *)
(***************************************************************************)
C7_OverlapNeverShrinksCount ==
    (WentThroughMerge /\ overlap_tokens > 0 /\ Len(Records) >= 2) =>
        \A k \in 2..Len(Records) :
            Records[k].token_count >= semantic_chunks[k].token_count

\* the number of occurrences of character c in s
Count(c, s) == Cardinality({k \in 1..Len(s) : s[k] = c})

\* the number of occurrences of c in the texts of segs
RECURSIVE CountInSegments(_, _)
CountInSegments(c, segs) ==
    IF segs = <<>> THEN 0
    ELSE Count(c, Head(segs).text) + CountInSegments(c, Tail(segs))

\* the characters of the model that are not whitespace
NonWhiteChars ==
    (Chars \cup BlankChars \cup LongChars \cup {Utf8Lead, Utf8Cont}) \ WhiteSpace

\* the non-whitespace characters that occur in a separator pattern
SeparatorChars ==
    UNION {{Separators[n].pat[k] : k \in 1..Len(Separators[n].pat)} :
               n \in 1..Len(Separators)} \ WhiteSpace

\* segment() has returned the segments of the page
Segmented == pc \in {"segmented", "merged", "done"} /\ segments # <<>>

(***************************************************************************)
(* C8 as claimed.  The segments partition the non-whitespace content of    *)
(* the preprocessed text: every non-whitespace character of the text is    *)
(* in exactly one segment, so each occurs in the segments as often as in   *)
(* the text.                                                               *)
(***************************************************************************)
C8_SegmentsKeepAllContent ==
    Segmented =>
        \A c \in NonWhiteChars :
            CountInSegments(c, segments) = Count(c, cleaned_text)

(***************************************************************************)
(* C8 as amended.  Every segment is a substring of the preprocessed text,  *)
(* no non-whitespace character occurs in the segments more often than in   *)
(* the text, and every non-whitespace character that is not one of the     *)
(* separators' own (. ? ! ; , #) occurs exactly as often: what segment()   *)
(* drops besides whitespace is the punctuation of the separators it split  *)
(* at.                                                                     *)
(***************************************************************************)
C8_SegmentsKeepContentButSeparators ==
    Segmented =>
        /\ \A k \in 1..Len(segments) :
               FindFrom(cleaned_text, segments[k].text, 1) > 0
        /\ \A c \in NonWhiteChars :
               /\ CountInSegments(c, segments) <= Count(c, cleaned_text)
               /\ c \notin SeparatorChars =>
                      CountInSegments(c, segments) = Count(c, cleaned_text)

\* a page has been split at ". " and the "." is in no segment
C8_Witness ==
    /\ Segmented
    /\ Len(segments) >= 2
    /\ Count(".", cleaned_text) > CountInSegments(".", segments)
    /\ Count("a", cleaned_text) >= 2

\* the paragraphs of t: what lies between its blank lines
Paragraphs(t) == KeepNonBlank(SplitAt(t, Separators[1], 1, 1))

\* every paragraph of t is within max_tokens on its own
ParagraphsFit(t, max_tokens) ==
    \A i \in 1..Len(Paragraphs(t)) :
        Len(EncodeOrdinary(Paragraphs(t)[i])) <= max_tokens

(***************************************************************************)
(* C9.  segment() on a text of k paragraphs separated by blank lines, each *)
(* within max_tokens, returns at least k segments and the i-th segment     *)
(* contains the i-th paragraph, also when the whole text is within         *)
(* max_tokens.                                                             *)
(***************************************************************************)
C9_OneSegmentPerParagraph ==
    (pc = "segment_returned" /\ ParagraphsFit(text, target_tokens)) =>
        /\ Len(segments) >= Len(Paragraphs(text))
        /\ \A i \in 1..Len(Paragraphs(text)) :
               FindFrom(segments[i].text, Trim(Paragraphs(text)[i]), 1) > 0

(***************************************************************************)
(* C10.  A page whose preprocessed text is empty after trimming returns    *)
(* the empty list, and nothing is segmented or merged for it.              *)
(***************************************************************************)
C10_BlankPageReturnsNothing ==
    (Done /\ Trim(Preprocess(text)) = <<>>) =>
        /\ returned = << <<>> >>
        /\ segments = <<>>
        /\ semantic_chunks = <<>>

\* a page of whitespace and a stripped control character has returned
C10_Witness ==
    /\ Done
    /\ Len(text) >= 3
    /\ \E k \in 1..Len(text) : text[k] \in ControlChars
    /\ \E k \in 1..Len(text) : text[k] = " "
    /\ returned = << <<>> >>

\* the call has returned Err
Failed == pc = "failed"

\* the overlap tokens taken from the final text `previous` do not decode
OverlapUndecodable(previous) ==
    ~ValidUtf8(DecodeBytes(LastTokens(EncodeOrdinary(previous), overlap_tokens)))

(***************************************************************************)
(* C11.  A failed decode of the overlap tokens while building a record      *)
(* k >= 1 makes chunk_page_text return ChunkingError and none of the       *)
(* records built before; it is never swallowed: a call that returned Ok    *)
(* met no undecodable overlap, and a call fails for no other reason.       *)
(***************************************************************************)
C11_DecodeFailureIsFatal ==
    /\ Failed =>
           /\ error = "ChunkingError"
           /\ returned = <<>>
           /\ overlap_tokens > 0
           /\ Len(semantic_chunks) >= 2
           /\ \E k \in 1..(Len(semantic_chunks) - 1) :
                  LET built == SubSeq(semantic_chunks, 1, k)
                      before == AddOverlapAndFinalize(built, page_num, source,
                                                      overlap_tokens)
                  IN  /\ before.ok
                      /\ OverlapUndecodable(before.value[k].text)
    /\ (WentThroughMerge /\ overlap_tokens > 0) =>
           /\ error = "none"
           /\ \A k \in 2..Len(Records) :
                  ~OverlapUndecodable(Records[k - 1].text)
    /\ (pc = "merged" /\ overlap_tokens > 0 /\ Len(semantic_chunks) >= 2
            /\ OverlapUndecodable(semantic_chunks[1].text)) =>
           ~AddOverlapAndFinalize(semantic_chunks, page_num, source,
                                  overlap_tokens).ok

\* a page has failed on the overlap for its second record: the first
\* record's text ends with the two-byte character, cut by the overlap
C11_Witness ==
    /\ Failed
    /\ error = "ChunkingError"
    /\ overlap_tokens = 1
    /\ semantic_chunks[1].text[Len(semantic_chunks[1].text)] = Utf8Cont

(***************************************************************************)
(* C12.  No chunk merge_segments produces has a token_count above          *)
(* target_tokens.                                                          *)
(***************************************************************************)
C12_NoChunkAboveTarget ==
    \A k \in 1..Len(semantic_chunks) :
        semantic_chunks[k].token_count <= target_tokens

(***************************************************************************)
(* C13.  For every valid UTF-8 string s, decode(encode_ordinary(s))        *)
(* succeeds and returns exactly s.                                         *)
(***************************************************************************)
C13_DecodeEncodeRoundTrip ==
    pc = "decoded" =>
        /\ ValidUtf8(text)
        /\ decode_result.ok
        /\ decode_result.value = text

\* the two-byte character followed by "aa", one pre-tokenizer piece that
\* is no vocabulary entry, has been encoded by byte-pair merging to three
\* tokens for four bytes, and decoded
C13_Witness ==
    /\ pc = "decoded"
    /\ text = WideChar \o <<"a", "a">>
    /\ Pieces(text, 1) = <<text>>
    /\ Len(encoded[1]) = 3
    /\ decode_result.ok

\* encode_ordinary has returned for text, other_text and the two joined
Encoded == pc \in {"encoded", "decoded"}

\* the pre-tokenizer cuts the joined string at the junction: its pieces
\* are the pieces of text followed by the pieces of other_text
CutAtJunction ==
    Pieces(text \o other_text, 1) = Pieces(text, 1) \o Pieces(other_text, 1)

C15_PreprocessIdempotent ==
    pc = "preprocessed_twice" => other_text = cleaned_text

\* preprocess has been applied twice to an input with three newlines
\* between two letters; the first result is "a", a blank line, "a"
C15_Witness ==
    /\ pc = "preprocessed_twice"
    /\ Len(text) > Len(cleaned_text)
    /\ cleaned_text = <<"a", "\n", "\n", "a">>
    /\ Cardinality({k \in 1..Len(text) : text[k] = "\n"}) >= 3

\* sub occurs in s
Contains(s, sub) == FindFrom(s, sub, 1) > 0

\* preprocess has returned cleaned_text for the page
Preprocessed == pc \notin {"start"}

\* C16: the preprocessed text holds no three consecutive newlines, no run
\* of two or more spaces or tabs, no control character other than tab,
\* newline and carriage return, and no leading or trailing whitespace; and
\* no returned chunk text holds three consecutive newlines
C16_PreprocessedTextIsClean ==
    /\ Preprocessed =>
          /\ ~Contains(cleaned_text, <<"\n", "\n", "\n">>)
          /\ \A k \in 1..Len(cleaned_text) - 1 :
                ~(cleaned_text[k] \in {" ", "\t"}
                    /\ cleaned_text[k + 1] \in {" ", "\t"})
          /\ \A k \in 1..Len(cleaned_text) : cleaned_text[k] \notin ControlChars
          /\ Trim(cleaned_text) = cleaned_text
    /\ Done =>
          \A k \in 1..Len(Records) :
              ~Contains(Records[k].text, <<"\n", "\n", "\n">>)

\* a page with three newlines in a row between two letters has been
\* chunked into two records
C16_Witness ==
    /\ Done
    /\ Contains(text, <<"\n", "\n", "\n">>)
    /\ cleaned_text = <<"a", "\n", "\n", "a">>
    /\ Len(Records) = 2

\* segment() has returned its list
SegmentReturned == pc = "segment_returned"

\* C17: in the list segment() returns the start offsets never decrease and
\* the ranges [start_offset, end_offset) of two segments do not overlap
C17_OffsetsAscendAndDisjoint ==
    SegmentReturned =>
        \A i \in 1..Len(segments) : \A j \in 1..Len(segments) :
            i < j =>
                /\ segments[i].start_offset <= segments[j].start_offset
                /\ segments[i].end_offset <= segments[j].start_offset

\* C18: every segment segment() returns locates its own text: the
\* characters of the text it was called on in [start_offset, end_offset)
\* are the segment's text
C18_OffsetsLocateText ==
    SegmentReturned =>
        \A i \in 1..Len(segments) :
            /\ segments[i].end_offset <= Len(text)
            /\ SubSeq(text, segments[i].start_offset + 1,
                      segments[i].end_offset) = segments[i].text

\* splitting s by any separator of the hierarchy yields at most one
\* non-whitespace piece
Atomic(s) == \A k \in 1..Len(Separators) : Len(SplitBy(s, Separators[k])) <= 1

\* the segment has at most max_tokens tokens or is atomic
FitsOrAtomic(segment, max_tokens) ==
    Len(EncodeOrdinary(segment.text)) <= max_tokens \/ Atomic(segment.text)

\* C19 as claimed: every segment segment() returns has at most max_tokens
\* tokens or is atomic, and none is empty or whitespace-only
C19_SegmentsFitOrAtomicNeverBlank ==
    SegmentReturned =>
        \A i \in 1..Len(segments) :
            /\ FitsOrAtomic(segments[i], target_tokens)
            /\ Trim(segments[i].text) # <<>>

\* C19: every segment segment() returns has at most max_tokens tokens or
\* is atomic, and when the text segment() was called on is not empty or
\* whitespace-only, no returned segment is
C19_SegmentsFitOrAtomicBlankOnlyOfBlank ==
    SegmentReturned =>
        \A i \in 1..Len(segments) :
            /\ FitsOrAtomic(segments[i], target_tokens)
            /\ Trim(text) # <<>> => Trim(segments[i].text) # <<>>

\* segment() has split a text with two spaces in a row, dropped the empty
\* piece between them and returned a segment above max_tokens
C19_Witness ==
    /\ SegmentReturned
    /\ Contains(text, <<" ", " ">>)
    /\ Trim(text) = text
    /\ Len(segments) >= 2
    /\ \E i \in 1..Len(segments) :
          Len(EncodeOrdinary(segments[i].text)) > target_tokens

\* C20: a segment produced by a split has semantic_level equal to the
\* hierarchy level (0 paragraph .. 5 word) of the separator that produced
\* it and a segment never split has semantic_level 0, so every returned
\* semantic_level is in 0..5; the segments of a text of words and spaces,
\* which only the word separator splits, have semantic_level 5
C20_SemanticLevelIsHierarchyLevel ==
    SegmentReturned =>
        \A i \in 1..Len(segments) :
            /\ segments[i].semantic_level \in 0..5
            /\ Len(segments) = 1 /\ segments[1].text = text
                  => segments[1].semantic_level = 0
            /\ (/\ Len(segments) >= 2
                /\ \A k \in 1..Len(text) :
                       text[k] \in Letters \cup Digits \cup {" "})
                  => segments[i].semantic_level = 5

\* what is left to run of segment(): the calls of recursive_split up to
\* the one past the last separator, each with its loop and its return
Variant ==
    IF pc = "segment_call" THEN 2 * Len(Separators) + 3
    ELSE IF pc = "recursive_split"
         THEN 2 * (Len(Separators) - separator_level) + 2
    ELSE IF pc = "after_loop"
         THEN 2 * (Len(Separators) - separator_level) + 1
    ELSE 0

\* one of the statements of segment() and recursive_split can run
CanStep ==
    \/ pc = "segment_call"
    \/ pc = "recursive_split" /\ separator_level >= Len(Separators)
    \/ pc = "recursive_split" /\ separator_level < Len(Separators)
    \/ pc = "after_loop" /\ needs_further_splitting # <<>>
    \/ pc = "after_loop" /\ needs_further_splitting = <<>>

\* C21: segment() terminates for every text and max_tokens: every step
\* brings the return nearer and a step can be taken until it has returned;
\* each call of recursive_split runs one separator level above its caller
\* and none above the last separator; what is returned is all segments
\* kept on the way and all that remain
C21_SegmentTerminates ==
    /\ [][Variant' < Variant]_vars
    /\ [](Variant \in 0..(2 * Len(Separators) + 3))
    /\ [](SegmentReturned \/ CanStep)
    /\ [][separator_level' = separator_level + 1]_separator_level
    /\ [](separator_level <= Len(Separators))
    /\ [](SegmentReturned => segments = Segment(text, target_tokens))

\* segment() has returned from the call past the last separator with
\* segments still above max_tokens among several
C21_Witness ==
    /\ SegmentReturned
    /\ separator_level = Len(Separators)
    /\ Len(segments) >= 2
    /\ \E i \in 1..Len(segments) :
          Len(EncodeOrdinary(segments[i].text)) > target_tokens

\* merge_segments has returned
MergeReturned == pc = "merge_returned"

\* the segment that opens chunk k
FirstSegmentOf(k) == segments[semantic_chunks[k].segments[1] + 1]

\* C22: merge_segments closes a chunk only when adding the next segment
\* would exceed the budget: for every two consecutive chunks c and c', the
\* text of c, one space and the text of the first segment of c' have more
\* than target_tokens tokens
C22_ChunkClosedOnlyWhenNextOverflows ==
    MergeReturned =>
        \A k \in 1..(Len(semantic_chunks) - 1) :
            Len(EncodeOrdinary(semantic_chunks[k].text \o <<" ">>
                                 \o FirstSegmentOf(k + 1).text)) > target_tokens

\* merge_segments has closed a chunk of two segments with text that fills
\* the budget, because the segment after it did not fit
C22_Witness ==
    /\ MergeReturned
    /\ SegmentsHaveText
    /\ Len(semantic_chunks) >= 2
    /\ Len(semantic_chunks[1].segments) = 2
    /\ semantic_chunks[1].token_count = target_tokens
    /\ Len(semantic_chunks[2].segments) = 1

\* the segment-index lists of chunks[1..n], one after the other
RECURSIVE MemberIndexes(_, _)
MemberIndexes(merged, n) ==
    IF n = 0 THEN <<>>
    ELSE MemberIndexes(merged, n - 1) \o merged[n].segments

\* the texts of the segments of the 0-based indexes, joined by one space
RECURSIVE JoinedTexts(_, _)
JoinedTexts(segs, indexes) ==
    IF indexes = <<>> THEN <<>>
    ELSE IF Len(indexes) = 1 THEN segs[indexes[1] + 1].text
    ELSE segs[indexes[1] + 1].text \o <<" ">> \o JoinedTexts(segs, Tail(indexes))

\* nothing lost or duplicated, texts joined by one space, offsets those of
\* the first and the last segment, and no chunk of no segment
LosesNothing ==
    /\ MemberIndexes(semantic_chunks, Len(semantic_chunks))
           = [k \in 1..Len(segments) |-> k - 1]
    /\ \A k \in 1..Len(semantic_chunks) :
          LET c == semantic_chunks[k]
          IN  /\ c.segments # <<>>
              /\ c.text = JoinedTexts(segments, c.segments)
              /\ c.start_offset = segments[c.segments[1] + 1].start_offset
              /\ c.end_offset = segments[c.segments[Len(c.segments)] + 1].end_offset
    /\ segments = <<>> => semantic_chunks = <<>>

\* C23 as claimed: for every segment list merge_segments loses and
\* duplicates nothing: the chunks' segment-index lists concatenated are
\* 0..n-1, each chunk's text is its segments' texts joined by one space,
\* its offsets are its first segment's start and its last segment's end,
\* and an empty list yields no chunks
C23_MergeLosesNothing ==
    MergeReturned => LosesNothing

\* C23: for every segment list none of whose segments has an empty text
\* merge_segments loses and duplicates nothing: the chunks' segment-index
\* lists concatenated are 0..n-1, each chunk's text is its segments' texts
\* joined by one space, its offsets are its first segment's start and its
\* last segment's end, and an empty list yields no chunks
C23_MergeLosesNothingOfSegmentsWithText ==
    MergeReturned /\ SegmentsHaveText => LosesNothing

\* merge_segments has returned two chunks, the first of two segments and
\* the second of one, from three segments with text
C23_Witness ==
    /\ MergeReturned
    /\ SegmentsHaveText
    /\ Len(segments) = 3
    /\ Len(semantic_chunks) = 2
    /\ semantic_chunks[1].segments = <<0, 1>>
    /\ semantic_chunks[2].segments = <<2>>
    /\ semantic_chunks[2].start_offset > semantic_chunks[1].end_offset

\* the spans the parts cut the piece into
SpansOf(pts) ==
    [k \in 1..(Len(pts) - 1) |-> Slice(piece, pts[k][1], pts[k + 1][1])]

\* the vocabulary rank of spans k and k + 1 put together
PairRank(spans, k) == RankOf(spans[k] \o spans[k + 1])

\* the spans with spans i and i + 1 made one
MergedSpans(spans, i) ==
    [k \in 1..(Len(spans) - 1) |->
        IF k < i THEN spans[k]
        ELSE IF k = i THEN spans[i] \o spans[i + 1]
        ELSE spans[k + 1]]

\* the pass of the while loop merged the leftmost pair of smallest rank
MergedLeftmostSmallest ==
    LET spans == SpansOf(parts)
    IN  \E i \in 1..(Len(spans) - 1) :
           /\ PairRank(spans, i) < RankMax
           /\ \A j \in 1..(Len(spans) - 1) : PairRank(spans, i) <= PairRank(spans, j)
           /\ \A j \in 1..(i - 1) : PairRank(spans, i) < PairRank(spans, j)
           /\ SpansOf(parts') = MergedSpans(spans, i)

\* C24: every pass of the while loop of _byte_pair_merge merges the
\* adjacent pair of spans of smallest vocabulary rank, the leftmost of
\* equal ones; the loop ends only when no two adjacent spans together are
\* a vocabulary entry; a piece of n bytes takes at most n - 1 merges
C24_MergesLeftmostSmallestPair ==
    /\ [][pc = "while" /\ pc' = "while" => MergedLeftmostSmallest]_vars
    /\ [](pc = "parts_returned" =>
             \A k \in 1..(Len(parts) - 2) :
                 PairRank(SpansOf(parts), k) = RankMax)
    /\ [](merges <= Len(piece) - 1)

\* _byte_pair_merge has returned after two merges that started with a tie
\* of the smallest rank
C24_Witness ==
    /\ pc = "parts_returned"
    /\ merges = 2
    /\ piece = <<"a", "a", "a", "a">>
    /\ Len(parts) = 3

\* byte_pair_encode has returned its ranks
RanksReturned == pc = "ranks_returned"

\* the parts cut the piece into contiguous non-empty spans, first to last
PartsCoverPiece ==
    /\ parts[1][1] = 0
    /\ parts[Len(parts)][1] = Len(piece)
    /\ \A k \in 1..(Len(parts) - 1) : parts[k][1] < parts[k + 1][1]

\* C25: with every single byte in the vocabulary, byte_pair_encode on a
\* non-empty piece never fails a lookup; the spans it emits are vocabulary
\* entries, are contiguous and cover the piece in order (rank k is the rank
\* of span k, and the entries of the ranks put together are the piece); a
\* one-byte piece yields exactly one token
C25_EmittedSpansAreVocabularyEntries ==
    /\ \A b \in PieceBytes : <<b>> \in DOMAIN Encoder
    /\ error = "none"
    /\ pc = "parts_returned" =>
          /\ PartsCoverPiece
          /\ \A k \in 1..(Len(parts) - 1) : SpansOf(parts)[k] \in DOMAIN Encoder
    /\ RanksReturned =>
          /\ \A k \in 1..Len(ret) : ret[k] \in DOMAIN Decoder
          /\ DecodeBytes(ret) = piece
          /\ Len(piece) = 1 => ret = <<Encoder[piece]>>
          /\ Len(piece) > 1 =>
                /\ Len(ret) = Len(parts) - 1
                /\ \A k \in 1..Len(ret) : Decoder[ret[k]] = SpansOf(parts)[k]

\* a piece of four bytes came back as a merged span and a single byte
C25_Witness ==
    /\ RanksReturned
    /\ piece = <<" ", "a", "a", "1">>
    /\ ret = <<Encoder[<<" ", "a", "a">>], Encoder[<<"1">>]>>

\* byte_pair_encode on every piece in turn, with no lookup of the whole
\* piece
RECURSIVE MergeEveryPiece(_)
MergeEveryPiece(ps) ==
    IF ps = <<>> THEN <<>>
    ELSE BytePairEncode(Head(ps)) \o MergeEveryPiece(Tail(ps))

EncodeReturned == pc = "encode_returned"

\* the first offset at or after from where an allowed label stands,
\* Len(s) + 1 when there is none
FirstAllowed(s, allowed, from) ==
    LET at == {i \in from..Len(s) : SpecialsAt(s, i) \cap allowed # {}}
    IN  IF at = {} THEN Len(s) + 1 ELSE Min(at)

\* what the claim says encode returns for s[from..]: the ordinary tokens of
\* the text up to the next allowed label, the label's rank, and so on
RECURSIVE ExpectedEncode(_, _, _)
ExpectedEncode(s, allowed, from) ==
    LET i == FirstAllowed(s, allowed, from)
    IN  IF i > Len(s) THEN EncodeOrdinary(Slice(s, from, Len(s)))
        ELSE LET label == CHOOSE l \in SpecialsAt(s, i) \cap allowed : TRUE
             IN  EncodeOrdinary(Slice(s, from, i))
                     \o <<SpecialTokensEncoder[label]>>
                     \o ExpectedEncode(s, allowed, i + Len(label))

\* a measure of the work encode has left: the text after start, and within
\* one pass of the outer loop the text after start_find
EncodeVariant ==
    IF pc = "encode_returned" THEN 0
    ELSE (Len(text) - start) * (Len(text) + 5)
           + (IF pc = "loop" THEN Len(text) + 4
              ELSE IF pc = "find" THEN Len(text) - start_find + 3
              ELSE IF pc = "ordinary" THEN 2
              ELSE 1)

\* some statement of encode can run
EncodeCanStep ==
    \/ pc \in {"loop", "find", "ordinary"}
    \/ pc = "special" /\ next_special # <<>>
    \/ pc = "special" /\ next_special = <<>>

\* C27: encode(text, allowed_special) terminates, and what it returns is the
\* rank of every allowed special label found scanning left to right with
\* the ordinary tokens of the text between them, a label outside the
\* allow-list being ordinary text; with an empty allow-list it returns
\* encode_ordinary(text)
C27_EncodeEmitsAllowedSpecials ==
    /\ [][EncodeVariant' < EncodeVariant]_vars
    /\ [](EncodeVariant >= 0)
    /\ [](EncodeReturned \/ EncodeCanStep)
    /\ [](EncodeReturned => ret = ExpectedEncode(text, allowed_special, 0))
    /\ [](EncodeReturned /\ allowed_special = {} => ret = EncodeOrdinary(text))

\* a label outside the allow-list was encoded as ordinary text and the
\* allowed label after it as its rank
C27_Witness ==
    /\ EncodeReturned
    /\ text = EndOfText \o <<"a">> \o ImEnd
    /\ allowed_special = {ImEnd}
    /\ ret = EncodeOrdinary(EndOfText \o <<"a">>) \o <<SpecialTokensEncoder[ImEnd]>>

\* the labels of a list of special ranks, one after the other
RECURSIVE LabelsOf(_)
LabelsOf(ranks) ==
    IF ranks = <<>> THEN <<>>
    ELSE SpecialTokensDecoder[Head(ranks)] \o LabelsOf(Tail(ranks))

\* C28: in a successfully constructed tokenizer no rank of the special-token
\* table is a rank of the byte-sequence vocabulary, and decoding special
\* ranks yields their labels
C28_SpecialRanksAreReserved ==
    pc \in {"constructed", "decoded"} =>
        /\ DOMAIN SpecialTokensDecoder \cap DOMAIN Decoder = {}
        /\ (/\ pc = "decoded"
            /\ \A k \in 1..Len(tokens) : tokens[k] \in DOMAIN SpecialTokensDecoder)
           => decode_result = [ok |-> TRUE, value |-> LabelsOf(tokens)]

SimpleReturned == pc = "simple_returned"
SimpleFailed == pc = "simple_failed"

\* a measure of the passes the loop has left
SimpleVariant ==
    IF pc = "simple_call" THEN ChunkIdLimit + 3
    ELSE IF pc = "while" THEN ChunkIdLimit + 2 - chunk_id
    ELSE 0

\* some statement of chunk_page_text_simple can run; in the loop the while
\* condition holds, so the loop ends only by its break or by an error
SimpleCanStep ==
    \/ pc = "simple_call"
    \/ pc = "while" /\ start_token_idx < Len(tokens)

\* the records are the windows of the tokens, step_size apart
WindowsOfTokens ==
    \A k \in 1..Len(returned) :
        LET from == (k - 1) * step_size
            to == Min({from + chunk_size, Len(tokens)})
        IN  /\ returned[k].chunk_id = k - 1
            /\ returned[k].token_count = to - from
            /\ returned[k].token_count <= chunk_size
            /\ returned[k].text = DecodeBytes(ChunkTokens(tokens, from, to))
            /\ k = Len(returned) <=> to = Len(tokens)

\* C30: under the SimpleToken strategy chunk_page_text terminates: the loop
\* makes at most 1001 passes and the call returns either the list of the
\* windows (chunk_ids 0, 1, 2, ..., every window of at most chunk_size
\* tokens, the last window ending at the last token) or a ChunkingError;
\* with step_size 0 and a page of more than chunk_size tokens it returns
\* the error
C30_SimpleChunkingTerminates ==
    /\ <>(SimpleReturned \/ SimpleFailed)
    /\ [][SimpleVariant' < SimpleVariant]_vars
    /\ [](SimpleVariant >= 0)
    /\ [](SimpleReturned \/ SimpleFailed \/ SimpleCanStep)
    /\ [](Len(chunks) <= ChunkIdLimit + 1)
    /\ [](SimpleReturned =>
            /\ error = "none"
            /\ returned # <<>>
            /\ Len(tokens) <= chunk_size =>
                  returned = <<MakeRecord(page_num, 0, text, source, Len(tokens))>>
            /\ Len(tokens) > chunk_size => WindowsOfTokens)
    /\ [](SimpleFailed => error = "ChunkingError" /\ returned = <<>>)
    /\ [](step_size = 0 /\ Len(tokens) > chunk_size => ~SimpleReturned)

\* the call gave up after 1001 windows that all start at token 0
C30_Witness ==
    /\ SimpleFailed
    /\ overlap_size >= chunk_size
    /\ chunk_size = 1
    /\ Len(chunks) = ChunkIdLimit + 1
    /\ start_token_idx = 0
====
